---- MODULE Spec2Model ----
(***************************************************************************)
(* Model of client/service/src/builder.rs: the node assembly function      *)
(* `build` and the helpers it calls (build_network, build_telemetry,       *)
(* gen_handler), the transaction bridge task (transaction_notifications)   *)
(* and the StatusSinks registry the telemetry tasks subscribe to.          *)
(***************************************************************************)
EXTENDS Integers, Sequences, FiniteSets, TLC

VARIABLES
    \* ---- build(): the assembly function and what it leaves behind
    pc,                 \* position of `build` in its body
    config,             \* the Configuration taken from ServiceParams
    params,             \* the other ServiceParams fields `build` reads
    task_manager,       \* "alive" while owned by build / ServiceComponents, "dropped" after
    spawned,            \* tasks handed to the SpawnTaskHandle, in order: [name, lane]
    logs,               \* log lines emitted by build: [level, at]
    handlers,           \* every handler gen_handler produced, in order
    rpc,                \* transports started by start_rpc_servers: [iface, deny, handler]
    rpc_handlers,       \* index into handlers of the internal RpcHandlers, 0 when none
    offchain_workers,   \* "unset" | "none" | "some"
    telemetry,          \* "unset" | "none" | "some"
    keep_alive,         \* resources registered by task_manager.keep_alive
    network,            \* "unset" | "built": the NetworkService and its status sinks
    failed,             \* fallible steps that failed so far
    result,             \* "none" | "err" | "ok"
    components          \* the ServiceComponents returned, "none" before

buildVars == <<pc, config, params, task_manager, spawned, logs, handlers, rpc,
               rpc_handlers, offchain_workers, telemetry, keep_alive, network,
               failed, result, components>>

VARIABLES
    \* ---- transaction_notifications: the pool-to-network bridge task
    emitted,            \* every hash the pool's import-notification stream emitted
    stream,             \* notifications emitted and not yet taken by for_each
    propagated,         \* network.propagate_transaction calls, in order
    txpool_import       \* number of "txpool.import" telemetry records emitted

bridgeVars == <<emitted, stream, propagated, txpool_import>>

VARIABLES
    \* ---- StatusSinks and its subscribers
    now,                \* the monotonic clock
    entries,            \* the registry: sequence of [chan, interval, last]
    subs,               \* per channel: receiver state, interval and time of push
    delivered,          \* per channel: the <<value, time>> sent on it, in order
    updates,            \* number of update calls so far; call k passes the value k
    producer            \* how update is scheduled: [mode, phase, next]; mode is
                        \* "free" (any time) or "periodic" (next call due at `next`)

sinkVars == <<now, entries, subs, delivered, updates, producer>>

VARIABLES
    \* ---- gen_handler applied to one set of constructor inputs
    gen_inputs,         \* [on_demand, remote_blockchain, offchain_storage, builder]
    tables,             \* <<>>, or the handlers generated: [safe, unsafe]
    call                \* the last request: [via, method, outcome]

genVars == <<gen_inputs, tables, call>>

VARIABLES
    \* ---- the life of the spawned tasks and of the keep-alive bag
    ended,              \* tasks whose future has completed or failed
    stream_closed,      \* tasks whose input stream has ended
    released            \* keep-alive resources dropped with the task manager

lifeVars == <<ended, stream_closed, released>>

VARIABLES
    \* ---- new_full_parts / new_light_parts and Builder::build_full / build_light
    shape,              \* "none" | "full" | "light", or "caller" for a ServiceParams
                        \* the caller put together itself
    fn,                 \* the assembly function in progress, or where assembly stands
    step,               \* number of steps of `fn` done
    constructed,        \* the parts constructed so far, in order
    handles,            \* components constructed with a SpawnTaskHandle
    service_params,     \* "none" | "ready" | "moved": the ServiceParams value
    builds,             \* number of times `build` was entered
    parts_failed        \* the step of parts construction or wiring that failed

asmRest == <<shape, fn, step, handles, service_params, builds, parts_failed>>
asmVars == <<constructed, asmRest>>

VARIABLES
    \* ---- instances of StatusSinks and who holds them
    sinks_created,          \* number of StatusSinks::new() calls so far
    network_status_sinks,   \* build's local: the instance build_network returned
    sinks_held              \* [holder, sinks]: the instance each holder was given

wireVars == <<sinks_created, network_status_sinks, sinks_held>>

VARIABLES
    \* ---- what build_network hands to the network stack
    network_params      \* the sc_network::config::Params values given to
                        \* NetworkWorker::new, in order

netVars == <<network_params>>

VARIABLES
    \* ---- the Builder implementation and what its wiring produced
    recipe,             \* the associated types the `impl Builder` names
    compiled,           \* "no" | "accepted" | "rejected": the trait bounds checked
    import_queue,       \* the arguments the import queue was constructed with
    network_inputs      \* ServiceParams fields build passes on to build_network

recipeVars == <<recipe, compiled, import_queue, network_inputs>>

VARIABLES
    \* ---- the mutual-exclusion guard of the StatusSinks subscriber list
    guard,              \* "free" | "push" | "update": who holds the guard
    pushing,            \* the push call in progress: <<>> or <<[chan, interval]>>
    updating            \* the update call in progress: <<>> or <<the value passed>>

lockVars == <<guard, pushing, updating>>

VARIABLES
    \* ---- the telemetry on-connect sinks
    telemetry_connection_sinks, \* the senders registered, in order
    on_connect,                 \* per sink: its receiver and what it received
    connected                   \* number of TelemetryEvent::Connected seen

connVars == <<telemetry_connection_sinks, on_connect, connected>>

extVars == <<netVars, recipeVars, lockVars, connVars>>

vars == <<buildVars, bridgeVars, sinkVars, genVars, lifeVars, asmVars, wireVars,
          extVars>>


----------------------------------------------------------------------------
(* sc_rpc::DenyUnsafe *)
DenyUnsafe == {"Yes", "No"}

(* The method names each sc_rpc API contributes through to_delegate. The     *)
(* conversion takes the API object only, whatever safety flag it holds.      *)
StateApi == {"state_getStorage"}
ChildStateApi == {"childstate_getStorage"}
ChainApi == {"chain_getHeader"}
OffchainApi == {"offchain_localStorageGet", "offchain_localStorageSet"}
AuthorApi == {"author_submitExtrinsic", "author_insertKey"}
SystemApi == {"system_name", "system_addReservedPeer"}
BuiltinApi == StateApi \cup ChildStateApi \cup ChainApi \cup OffchainApi
                  \cup AuthorApi \cup SystemApi

(* Method names an injected RPC extension may carry. *)
ExtNames == {"ext_query", "ext_admin"}

(* RpcExtensionBuilder::build for the closure implementation: the closure    *)
(* is any function of the flag.                                               *)
ClosureBuilders == [DenyUnsafe -> SUBSET ExtNames]

(* NoopRpcExtensionBuilder(ext).build(_deny) == ext.clone() *)
NoopRpcExtensionBuilder(ext) == [d \in DenyUnsafe |-> ext]

NoopBuilders == {NoopRpcExtensionBuilder(e) : e \in SUBSET ExtNames}

(* rpc_extensions_builder.build(deny_unsafe) *)
BuildExtension(rpc_extensions_builder, deny_unsafe) ==
    rpc_extensions_builder[deny_unsafe]

(* Variant of gen_handler that leaves the unsafe built-in methods out of    *)
(* the table when unsafe calls are denied.                                  *)
GenHandlerHidesUnsafe(deny_unsafe, on_demand, remote_blockchain, offchain_storage, rpc_extensions_builder) ==
    LET light == remote_blockchain /\ on_demand
        maybe_offchain_rpc == IF offchain_storage THEN OffchainApi ELSE {}
        hidden == IF deny_unsafe = "Yes"
                  THEN {"author_insertKey", "system_addReservedPeer",
                        "offchain_localStorageGet", "offchain_localStorageSet"}
                  ELSE {}
    IN  [ deny_unsafe |-> deny_unsafe,
          chain       |-> IF light THEN "light" ELSE "full",
          state       |-> IF light THEN "light" ELSE "full",
          child_state |-> IF light THEN "light" ELSE "full",
          offchain    |-> offchain_storage,
          author      |-> "Author::new",
          system      |-> "System::new",
          methods     |-> ((StateApi \cup ChildStateApi \cup ChainApi
                             \cup maybe_offchain_rpc \cup AuthorApi \cup SystemApi)
                             \ hidden)
                            \cup BuildExtension(rpc_extensions_builder, deny_unsafe) ]

(* Variant of gen_handler that takes the light constructors as soon as one  *)
(* of the two remote handles is present.                                    *)
GenHandlerLightIfEither(deny_unsafe, on_demand, remote_blockchain, offchain_storage, rpc_extensions_builder) ==
    LET light == remote_blockchain \/ on_demand
        maybe_offchain_rpc == IF offchain_storage THEN OffchainApi ELSE {}
    IN  [ deny_unsafe |-> deny_unsafe,
          chain       |-> IF light THEN "light" ELSE "full",
          state       |-> IF light THEN "light" ELSE "full",
          child_state |-> IF light THEN "light" ELSE "full",
          offchain    |-> offchain_storage,
          author      |-> "Author::new",
          system      |-> "System::new",
          methods     |-> StateApi \cup ChildStateApi \cup ChainApi
                            \cup maybe_offchain_rpc \cup AuthorApi \cup SystemApi
                            \cup BuildExtension(rpc_extensions_builder, deny_unsafe) ]

(* Variant of gen_handler that adds the offchain API without looking at     *)
(* the backend's offchain storage.                                          *)
GenHandlerOffchainAlways(deny_unsafe, on_demand, remote_blockchain, offchain_storage, rpc_extensions_builder) ==
    LET light == remote_blockchain /\ on_demand
        maybe_offchain_rpc == OffchainApi
    IN  [ deny_unsafe |-> deny_unsafe,
          chain       |-> IF light THEN "light" ELSE "full",
          state       |-> IF light THEN "light" ELSE "full",
          child_state |-> IF light THEN "light" ELSE "full",
          offchain    |-> offchain_storage,
          author      |-> "Author::new",
          system      |-> "System::new",
          methods     |-> StateApi \cup ChildStateApi \cup ChainApi
                            \cup maybe_offchain_rpc \cup AuthorApi \cup SystemApi
                            \cup BuildExtension(rpc_extensions_builder, deny_unsafe) ]

(* gen_handler: the dispatch table and the constructors it was built from.   *)
GenHandler(deny_unsafe, on_demand, remote_blockchain, offchain_storage, rpc_extensions_builder) ==
    LET light == remote_blockchain /\ on_demand
        maybe_offchain_rpc == IF offchain_storage THEN OffchainApi ELSE {}
    IN  [ deny_unsafe |-> deny_unsafe,
          chain       |-> IF light THEN "light" ELSE "full",
          state       |-> IF light THEN "light" ELSE "full",
          child_state |-> IF light THEN "light" ELSE "full",
          offchain    |-> offchain_storage,
          author      |-> "Author::new",
          system      |-> "System::new",
          methods     |-> StateApi \cup ChildStateApi \cup ChainApi
                            \cup maybe_offchain_rpc \cup AuthorApi \cup SystemApi
                            \cup BuildExtension(rpc_extensions_builder, deny_unsafe) ]

(* A request for `method` on a handler: found in the table and handed to     *)
(* the API object (which holds the handler's flag), or not found.            *)
Dispatch(handler, method) ==
    IF method \in handler.methods
    THEN [outcome |-> "dispatched", deny_unsafe |-> handler.deny_unsafe]
    ELSE [outcome |-> "method_not_found", deny_unsafe |-> handler.deny_unsafe]

----------------------------------------------------------------------------
(* build() *)

(* spawn_handle.spawn(name, ..) / spawn_handle.spawn_blocking(name, ..) *)
(* The task manager every handle of build comes from:                       *)
(* task_manager.spawn_handle(), task_manager being the ServiceParams field. *)
SpawnHandle == "params.task_manager"

Spawn(name) ==
    Append(spawned, [name |-> name, lane |-> "cooperative", registry |-> SpawnHandle])
SpawnBlocking(name) ==
    Append(spawned, [name |-> name, lane |-> "blocking", registry |-> SpawnHandle])

Log(level, at) == Append(logs, [level |-> level, at |-> at])

SpawnedNames == {spawned[i].name : i \in 1..Len(spawned)}

(* Variant of Running in which the tasks outlive the task manager. *)
RunningAfterDrop == SpawnedNames \ ended

(* Tasks of the registry that are still driven: while the task manager       *)
(* lives, those whose future has not completed; none once it is dropped.     *)
Running == IF task_manager = "alive" THEN SpawnedNames \ ended ELSE {}

(* network_status_sinks.clone() handed to `holder` *)
HoldSinks(holder) ==
    sinks_held \cup {[holder |-> holder, sinks |-> network_status_sinks]}

(* `?` on a failed step: build returns the error; the ServiceParams fields   *)
(* it destructured, the task manager among them, are dropped with its frame. *)
ReturnErr(at) ==
    /\ result' = "err"
    /\ failed' = failed \cup {at}
    /\ pc' = "done"
    /\ task_manager' = "dropped"
    /\ rpc' = {}

(* config.role: sc_network::config::Role; build_network tells Light from    *)
(* every other role.                                                        *)
Roles == {"Full", "Light", "Sentry", "Authority"}

Configs ==
    [ role                         : Roles,
      offchain_worker_enabled      : BOOLEAN,
      prometheus_config            : BOOLEAN,
      telemetry_endpoints          : BOOLEAN,
      telemetry_external_transport : BOOLEAN,
      tracing_targets              : BOOLEAN,
      protocol_id                  : BOOLEAN ]

ExtBuilders ==
    { NoopRpcExtensionBuilder(ExtNames),
      [d \in DenyUnsafe |-> IF d = "Yes" THEN {"ext_query"} ELSE ExtNames] }

Params ==
    [ offchain_storage       : BOOLEAN,
      on_demand              : BOOLEAN,
      remote_blockchain      : BOOLEAN,
      rpc_extensions_builder : ExtBuilders ]

(* No task has ended, no stream has closed, nothing was released. *)
InitLife ==
    /\ ended = {}
    /\ stream_closed = {}
    /\ released = {}

(* `build` was entered with a ServiceParams value, which it has taken. *)
InitHandedOver ==
    /\ shape = "caller"
    /\ fn = "build"
    /\ step = 0
    /\ handles = {}
    /\ service_params = "moved"
    /\ builds = 1
    /\ parts_failed = "none"

(* What a ServiceParams value carries for build_network besides on_demand. *)
NoNetworkInputs ==
    [ block_announce_validator_builder |-> FALSE,
      finality_proof_request_builder   |-> FALSE,
      finality_proof_provider          |-> FALSE ]

(* No Builder implementation: the caller made its ServiceParams itself, with *)
(* a finality-proof provider and nothing else optional.                      *)
NoRecipe ==
    [ ImportQueueBuilder |-> [ name |-> "none",
                               BlockImportBuilder |->
                                   [name |-> "none", SelectChainBuilder |-> "none"] ],
      BlockImportBuilder |-> [name |-> "none", SelectChainBuilder |-> "none"],
      SelectChainBuilder |-> "none" ]

NoImportQueue ==
    [ built_by |-> "none", mode |-> "none", block_import |-> "none",
      wrapper |-> "none", justification_import |-> "none",
      finality_proof_import |-> "none" ]

InitRecipeCaller ==
    /\ recipe = NoRecipe
    /\ compiled = "no"
    /\ import_queue = NoImportQueue
    /\ network_inputs = [NoNetworkInputs EXCEPT !.finality_proof_provider = TRUE]

InitLock ==
    /\ guard = "free"
    /\ pushing = <<>>
    /\ updating = <<>>

MaxOnConnect == 2
MaxConnected == 2

OnConnectIds == 1..MaxOnConnect

(* let telemetry_connection_sinks = Default::default(): an empty list *)
InitConn ==
    /\ telemetry_connection_sinks = <<>>
    /\ on_connect = [i \in OnConnectIds |->
                       [receiver |-> "none", got |-> 0, since |-> 0]]
    /\ connected = 0

InitWire ==
    /\ sinks_created = 0
    /\ network_status_sinks = 0
    /\ sinks_held = {}

InitBuild ==
    /\ pc = "start"
    /\ config \in Configs
    /\ params \in Params
    /\ task_manager = "alive"
    /\ spawned = <<>>
    /\ logs = <<>>
    /\ handlers = <<>>
    /\ rpc = {}
    /\ rpc_handlers = 0
    /\ offchain_workers = "unset"
    /\ telemetry = "unset"
    /\ keep_alive = "empty"
    /\ network = "unset"
    /\ failed = {}
    /\ result = "none"
    /\ components = "none"

(* sp_session::generate_initial_session_keys(..)? *)
GenerateInitialSessionKeys ==
    /\ pc = "start"
    /\ \E ok \in BOOLEAN :
         IF ok
         THEN /\ pc' = "build_network"
              /\ UNCHANGED <<task_manager, rpc, failed, result>>
         ELSE ReturnErr("session_keys")
    /\ UNCHANGED <<config, params, spawned, logs, handlers, rpc_handlers,
                   offchain_workers, telemetry, keep_alive, network, components>>
    /\ UNCHANGED <<bridgeVars, sinkVars, genVars, lifeVars, asmVars, wireVars, extVars>>

(* Variant of TransactionPoolAdapter that imports for every role. *)
TransactionPoolAdapterAnyRole(role) ==
    [ imports_external_transactions |-> TRUE ]

(* TransactionPoolAdapter { imports_external_transactions:                  *)
(*     !matches!(config.role, Role::Light), .. }                            *)
TransactionPoolAdapter(role) ==
    [ imports_external_transactions |-> ~(role = "Light") ]

(* Variant of ProtocolId with no fallback for a chain spec without an id. *)
ProtocolIdNoDefault(cfg) ==
    IF cfg.protocol_id THEN "chain_spec.protocol_id" ELSE "none"

(* match config.chain_spec.protocol_id() { Some(pid) => pid,                *)
(*                                         None => DEFAULT_PROTOCOL_ID }    *)
ProtocolId(cfg) ==
    IF cfg.protocol_id THEN "chain_spec.protocol_id" ELSE "DEFAULT_PROTOCOL_ID"

(* sc_network::config::Params { .. } as build_network fills it in *)
NetworkParams(cfg, on_demand, inputs) ==
    [ role                           |-> cfg.role,
      finality_proof_provider        |-> inputs.finality_proof_provider,
      finality_proof_request_builder |-> inputs.finality_proof_request_builder,
      on_demand                      |-> on_demand,
      transaction_pool               |-> TransactionPoolAdapter(cfg.role),
      protocol_id                    |-> ProtocolId(cfg),
      block_announce_validator       |->
          IF inputs.block_announce_validator_builder
          THEN "block_announce_validator_builder"
          ELSE "DefaultBlockAnnounceValidator",
      metrics_registry               |-> cfg.prometheus_config ]

(* Variant of BuildNetwork in which a NetworkWorker::new failure is only     *)
(* recorded and assembly goes on.                                            *)
BuildNetworkIgnoresFailure ==
    /\ pc = "build_network"
    /\ logs' = IF config.protocol_id THEN logs ELSE Log("warn", "protocol_id")
    /\ \E ok \in BOOLEAN :
         /\ network' = "built"
         /\ pc' = "spawn_network"
         /\ failed' = IF ok THEN failed ELSE failed \cup {"build_network"}
         /\ UNCHANGED <<task_manager, rpc, result>>
    /\ constructed' = Append(constructed, "network")
    /\ sinks_created' = sinks_created + 1
    /\ network_status_sinks' = sinks_created + 1
    /\ sinks_held' = sinks_held \cup
                       {[holder |-> "network_future", sinks |-> sinks_created + 1]}
    /\ network_params' =
         Append(network_params, NetworkParams(config, params.on_demand, network_inputs))
    /\ UNCHANGED <<config, params, spawned, handlers, rpc_handlers,
                   offchain_workers, telemetry, keep_alive, components>>
    /\ UNCHANGED <<bridgeVars, sinkVars, genVars, lifeVars, asmRest>>
    /\ UNCHANGED <<recipeVars, lockVars, connVars>>

(* build_network(..)?: the adapter and the protocol id are chosen, the       *)
(* latter defaulting with a warning, the Params are filled in, then          *)
(* NetworkWorker::new may fail; on success the service handle, the one       *)
(* StatusSinks::new() instance (a clone of it inside the worker future) and  *)
(* the worker future exist, nothing is spawned yet.                          *)
BuildNetwork ==
    /\ pc = "build_network"
    /\ logs' = IF config.protocol_id THEN logs ELSE Log("warn", "protocol_id")
    /\ \E ok \in BOOLEAN :
         IF ok
         THEN /\ network' = "built"
              /\ pc' = "spawn_network"
              /\ constructed' = Append(constructed, "network")
              /\ sinks_created' = sinks_created + 1
              /\ network_status_sinks' = sinks_created + 1
              /\ sinks_held' = sinks_held \cup
                     {[holder |-> "network_future", sinks |-> sinks_created + 1]}
              /\ UNCHANGED <<task_manager, rpc, failed, result>>
         ELSE /\ ReturnErr("build_network")
              /\ UNCHANGED <<network, constructed, wireVars>>
    /\ network_params' =
         Append(network_params, NetworkParams(config, params.on_demand, network_inputs))
    /\ UNCHANGED <<config, params, spawned, handlers, rpc_handlers,
                   offchain_workers, telemetry, keep_alive, components>>
    /\ UNCHANGED <<bridgeVars, sinkVars, genVars, lifeVars, asmRest>>
    /\ UNCHANGED <<recipeVars, lockVars, connVars>>

(* Variant of SpawnNetworkWorker that uses the cooperative lane. *)
SpawnNetworkWorkerCooperative ==
    /\ pc = "spawn_network"
    /\ spawned' = Spawn("network-worker")
    /\ pc' = "offchain"
    /\ UNCHANGED <<config, params, task_manager, logs, handlers, rpc, rpc_handlers,
                   offchain_workers, telemetry, keep_alive, network, failed,
                   result, components>>
    /\ UNCHANGED <<bridgeVars, sinkVars, genVars, lifeVars, asmVars, wireVars, extVars>>

(* spawn_handle.spawn_blocking("network-worker", network_future) *)
SpawnNetworkWorker ==
    /\ pc = "spawn_network"
    /\ spawned' = SpawnBlocking("network-worker")
    /\ pc' = "offchain"
    /\ UNCHANGED <<config, params, task_manager, logs, handlers, rpc, rpc_handlers,
                   offchain_workers, telemetry, keep_alive, network, failed,
                   result, components>>
    /\ UNCHANGED <<bridgeVars, sinkVars, genVars, lifeVars, asmVars, wireVars, extVars>>

(* Variant of OffchainWorkers that warns whenever the backend has no         *)
(* offchain storage, enabled or not.                                         *)
OffchainWorkersWarnsWithoutStorage ==
    /\ pc = "offchain"
    /\ offchain_workers' =
         IF config.offchain_worker_enabled /\ params.offchain_storage
         THEN "some" ELSE "none"
    /\ logs' =
         IF ~params.offchain_storage
         THEN Log("warn", "offchain") ELSE logs
    /\ pc' = "txpool_notifications"
    /\ UNCHANGED <<config, params, task_manager, spawned, handlers, rpc,
                   rpc_handlers, telemetry, keep_alive, network, failed, result,
                   components>>
    /\ UNCHANGED <<bridgeVars, sinkVars, genVars, lifeVars, asmVars, wireVars, extVars>>

(* let offchain_workers = match (config.offchain_worker, offchain_storage) *)
OffchainWorkers ==
    /\ pc = "offchain"
    /\ offchain_workers' =
         IF config.offchain_worker_enabled /\ params.offchain_storage
         THEN "some" ELSE "none"
    /\ logs' =
         IF config.offchain_worker_enabled /\ ~params.offchain_storage
         THEN Log("warn", "offchain") ELSE logs
    /\ pc' = "txpool_notifications"
    /\ UNCHANGED <<config, params, task_manager, spawned, handlers, rpc,
                   rpc_handlers, telemetry, keep_alive, network, failed, result,
                   components>>
    /\ UNCHANGED <<bridgeVars, sinkVars, genVars, lifeVars, asmVars, wireVars, extVars>>

SpawnTxpoolNotifications ==
    /\ pc = "txpool_notifications"
    /\ spawned' = Spawn("txpool-notifications")
    /\ pc' = "offchain_notifications"
    /\ UNCHANGED <<config, params, task_manager, logs, handlers, rpc, rpc_handlers,
                   offchain_workers, telemetry, keep_alive, network, failed,
                   result, components>>
    /\ UNCHANGED <<bridgeVars, sinkVars, genVars, lifeVars, asmVars, wireVars, extVars>>

(* Variant of SpawnOffchainNotifications that spawns whenever the offchain  *)
(* worker is enabled in the config, storage or not.                         *)
SpawnOffchainNotificationsIfEnabled ==
    /\ pc = "offchain_notifications"
    /\ spawned' = IF config.offchain_worker_enabled
                  THEN Spawn("offchain-notifications") ELSE spawned
    /\ pc' = "on_transaction_imported"
    /\ UNCHANGED <<config, params, task_manager, logs, handlers, rpc, rpc_handlers,
                   offchain_workers, telemetry, keep_alive, network, failed,
                   result, components>>
    /\ UNCHANGED <<bridgeVars, sinkVars, genVars, lifeVars, asmVars, wireVars, extVars>>

(* if let Some(offchain) = offchain_workers.clone() { spawn(..) } *)
SpawnOffchainNotifications ==
    /\ pc = "offchain_notifications"
    /\ spawned' = IF offchain_workers = "some"
                  THEN Spawn("offchain-notifications") ELSE spawned
    /\ pc' = "on_transaction_imported"
    /\ UNCHANGED <<config, params, task_manager, logs, handlers, rpc, rpc_handlers,
                   offchain_workers, telemetry, keep_alive, network, failed,
                   result, components>>
    /\ UNCHANGED <<bridgeVars, sinkVars, genVars, lifeVars, asmVars, wireVars, extVars>>

SpawnOnTransactionImported ==
    /\ pc = "on_transaction_imported"
    /\ spawned' = Spawn("on-transaction-imported")
    /\ pc' = "metrics"
    /\ UNCHANGED <<config, params, task_manager, logs, handlers, rpc, rpc_handlers,
                   offchain_workers, telemetry, keep_alive, network, failed,
                   result, components>>
    /\ UNCHANGED <<bridgeVars, sinkVars, genVars, lifeVars, asmVars, wireVars, extVars>>

(* Variant of PrometheusMetrics that waits for the exporter endpoint to     *)
(* start and returns its error.                                             *)
PrometheusMetricsAwaitsEndpoint ==
    /\ pc = "metrics"
    /\ IF config.prometheus_config
       THEN \E ok \in BOOLEAN, started \in BOOLEAN :
              IF ok /\ started
              THEN /\ spawned' = Spawn("prometheus-endpoint")
                   /\ pc' = "telemetry_periodic_send"
                   /\ UNCHANGED <<task_manager, rpc, failed, result>>
              ELSE /\ ReturnErr(IF ok THEN "prometheus_endpoint" ELSE "metrics")
                   /\ UNCHANGED spawned
       ELSE /\ pc' = "telemetry_periodic_send"
            /\ UNCHANGED <<spawned, task_manager, rpc, failed, result>>
    /\ UNCHANGED <<config, params, logs, handlers, rpc_handlers, offchain_workers,
                   telemetry, keep_alive, network, components>>
    /\ UNCHANGED <<bridgeVars, sinkVars, genVars, lifeVars, asmVars, wireVars, extVars>>

(* MetricsService::with_prometheus(&registry, &config)? then the exporter    *)
(* endpoint is spawned; MetricsService::new() without a Prometheus config.   *)
PrometheusMetrics ==
    /\ pc = "metrics"
    /\ IF config.prometheus_config
       THEN \E ok \in BOOLEAN :
              IF ok
              THEN /\ spawned' = Spawn("prometheus-endpoint")
                   /\ pc' = "telemetry_periodic_send"
                   /\ UNCHANGED <<task_manager, rpc, failed, result>>
              ELSE /\ ReturnErr("metrics")
                   /\ UNCHANGED spawned
       ELSE /\ pc' = "telemetry_periodic_send"
            /\ UNCHANGED <<spawned, task_manager, rpc, failed, result>>
    /\ UNCHANGED <<config, params, logs, handlers, rpc_handlers, offchain_workers,
                   telemetry, keep_alive, network, components>>
    /\ UNCHANGED <<bridgeVars, sinkVars, genVars, lifeVars, asmVars, wireVars, extVars>>

SpawnTelemetryPeriodicSend ==
    /\ pc = "telemetry_periodic_send"
    /\ spawned' = Spawn("telemetry-periodic-send")
    /\ sinks_held' = HoldSinks("telemetry-periodic-send")
    /\ pc' = "telemetry_periodic_network_state"
    /\ UNCHANGED <<config, params, task_manager, logs, handlers, rpc, rpc_handlers,
                   offchain_workers, telemetry, keep_alive, network, failed,
                   result, components>>
    /\ UNCHANGED <<sinks_created, network_status_sinks>>
    /\ UNCHANGED <<bridgeVars, sinkVars, genVars, lifeVars, asmVars, extVars>>

SpawnTelemetryPeriodicNetworkState ==
    /\ pc = "telemetry_periodic_network_state"
    /\ spawned' = Spawn("telemetry-periodic-network-state")
    /\ sinks_held' = HoldSinks("telemetry-periodic-network-state")
    /\ pc' = "rpc"
    /\ UNCHANGED <<config, params, task_manager, logs, handlers, rpc, rpc_handlers,
                   offchain_workers, telemetry, keep_alive, network, failed,
                   result, components>>
    /\ UNCHANGED <<sinks_created, network_status_sinks>>
    /\ UNCHANGED <<bridgeVars, sinkVars, genVars, lifeVars, asmVars, extVars>>

(* let gen_handler = |deny_unsafe| gen_handler(deny_unsafe, &config, ..) *)
GenHandlerClosure(deny_unsafe) ==
    GenHandler(deny_unsafe, params.on_demand, params.remote_blockchain,
               params.offchain_storage, params.rpc_extensions_builder)

(* The transports start_rpc_servers can bind, in the order it binds them. *)
Interfaces == <<"http", "ws">>

(* The interfaces configured, each with its own safety flag. *)
ServedChoices ==
    UNION { [S -> DenyUnsafe] : S \in SUBSET {Interfaces[i] : i \in 1..Len(Interfaces)} }

(* start_rpc_servers(&config, gen_handler): one handler per configured       *)
(* interface, generated with that interface's flag and bound to it.          *)
ServedHandlers(served) ==
    LET order == SelectSeq(Interfaces, LAMBDA i : i \in DOMAIN served)
    IN  [k \in 1..Len(order) |->
            [iface |-> order[k], deny |-> served[order[k]],
             handler |-> GenHandlerClosure(served[order[k]])]]

(* let rpc = start_rpc_servers(&config, gen_handler)? *)
StartRpcServers ==
    /\ pc = "rpc"
    /\ \E served \in ServedChoices, ok \in BOOLEAN :
         IF ok
         THEN LET bound == ServedHandlers(served)
              IN  /\ handlers' = handlers \o [k \in 1..Len(bound) |-> bound[k].handler]
                  /\ rpc' = { [iface |-> bound[k].iface, deny |-> bound[k].deny,
                                handler |-> Len(handlers) + k] :
                                k \in 1..Len(bound) }
                  /\ pc' = "rpc_handlers"
                  /\ constructed' = Append(constructed, "rpc")
                  /\ UNCHANGED <<task_manager, failed, result>>
         ELSE /\ ReturnErr("rpc")
              /\ UNCHANGED <<handlers, constructed>>
    /\ UNCHANGED <<config, params, spawned, logs, rpc_handlers, offchain_workers,
                   telemetry, keep_alive, network, components>>
    /\ UNCHANGED <<bridgeVars, sinkVars, genVars, lifeVars, asmRest, wireVars, extVars>>

(* Variant of GenRpcHandlers that reuses a handler already bound to a        *)
(* transport when there is one instead of generating its own.                *)
GenRpcHandlersReusesBound ==
    /\ pc = "rpc_handlers"
    /\ IF rpc = {}
       THEN /\ handlers' = Append(handlers, GenHandlerClosure("No"))
            /\ rpc_handlers' = Len(handlers) + 1
       ELSE /\ handlers' = handlers
            /\ rpc_handlers' = (CHOOSE s \in rpc : TRUE).handler
    /\ pc' = "telemetry"
    /\ UNCHANGED <<config, params, task_manager, spawned, logs, rpc,
                   offchain_workers, telemetry, keep_alive, network, failed, result,
                   components>>
    /\ UNCHANGED <<bridgeVars, sinkVars, genVars, lifeVars, asmVars, wireVars, extVars>>

(* let rpc_handlers = Arc::new(RpcHandlers(gen_handler(DenyUnsafe::No))) *)
GenRpcHandlers ==
    /\ pc = "rpc_handlers"
    /\ handlers' = Append(handlers, GenHandlerClosure("No"))
    /\ rpc_handlers' = Len(handlers) + 1
    /\ pc' = "telemetry"
    /\ UNCHANGED <<config, params, task_manager, spawned, logs, rpc,
                   offchain_workers, telemetry, keep_alive, network, failed, result,
                   components>>
    /\ UNCHANGED <<bridgeVars, sinkVars, genVars, lifeVars, asmVars, wireVars, extVars>>

(* Variant of BuildTelemetry that takes the external transport out of the    *)
(* config whether or not telemetry endpoints are configured.                 *)
BuildTelemetryTakesAlways ==
    /\ pc = "telemetry"
    /\ config' = [config EXCEPT !.telemetry_external_transport = FALSE]
    /\ IF config.telemetry_endpoints
       THEN /\ spawned' = Spawn("telemetry-worker")
            /\ telemetry' = "some"
            /\ constructed' = Append(constructed, "telemetry")
            /\ \E reachable \in BOOLEAN :
                 failed' = IF reachable THEN failed
                           ELSE failed \cup {"telemetry_endpoint"}
       ELSE /\ telemetry' = "none"
            /\ UNCHANGED <<spawned, failed, constructed>>
    /\ pc' = "tracing"
    /\ UNCHANGED <<params, task_manager, logs, handlers, rpc, rpc_handlers,
                   offchain_workers, keep_alive, network, result, components>>
    /\ UNCHANGED <<bridgeVars, sinkVars, genVars, lifeVars, asmRest, wireVars, extVars>>

(* config.telemetry_endpoints.clone().map(|endpoints| build_telemetry(..)):  *)
(* build_telemetry takes the external transport out of the config, spawns    *)
(* the telemetry worker and returns the handle; it has no error to return,   *)
(* whether or not the endpoint can be reached.                               *)
BuildTelemetry ==
    /\ pc = "telemetry"
    /\ IF config.telemetry_endpoints
       THEN /\ config' = [config EXCEPT !.telemetry_external_transport = FALSE]
            /\ spawned' = Spawn("telemetry-worker")
            /\ telemetry' = "some"
            /\ constructed' = Append(constructed, "telemetry")
            /\ \E reachable \in BOOLEAN :
                 failed' = IF reachable THEN failed
                           ELSE failed \cup {"telemetry_endpoint"}
       ELSE /\ telemetry' = "none"
            /\ UNCHANGED <<config, spawned, failed, constructed>>
    /\ pc' = "tracing"
    /\ UNCHANGED <<params, task_manager, logs, handlers, rpc, rpc_handlers,
                   offchain_workers, keep_alive, network, result, components>>
    /\ UNCHANGED <<bridgeVars, sinkVars, genVars, lifeVars, asmRest, wireVars, extVars>>

(* Variant of InstallTracing that propagates the error with `?`. *)
InstallTracingFatal ==
    /\ pc = "tracing"
    /\ IF config.tracing_targets
       THEN \E ok \in BOOLEAN :
              IF ok
              THEN /\ pc' = "informant"
                   /\ UNCHANGED <<logs, failed, task_manager, rpc, result>>
              ELSE /\ ReturnErr("tracing")
                   /\ UNCHANGED logs
       ELSE /\ pc' = "informant"
            /\ UNCHANGED <<logs, failed, task_manager, rpc, result>>
    /\ UNCHANGED <<config, params, spawned, handlers,
                   rpc_handlers, offchain_workers, telemetry, keep_alive, network,
                   components>>
    /\ UNCHANGED <<bridgeVars, sinkVars, genVars, lifeVars, asmVars, wireVars, extVars>>

(* tracing::subscriber::set_global_default(subscriber): Err is logged *)
InstallTracing ==
    /\ pc = "tracing"
    /\ IF config.tracing_targets
       THEN \E ok \in BOOLEAN :
              IF ok
              THEN UNCHANGED <<logs, failed>>
              ELSE /\ logs' = Log("error", "tracing")
                   /\ failed' = failed \cup {"tracing"}
       ELSE UNCHANGED <<logs, failed>>
    /\ pc' = "informant"
    /\ UNCHANGED <<config, params, task_manager, spawned, handlers, rpc,
                   rpc_handlers, offchain_workers, telemetry, keep_alive, network,
                   result, components>>
    /\ UNCHANGED <<bridgeVars, sinkVars, genVars, lifeVars, asmVars, wireVars, extVars>>

(* Variant of SpawnInformant that gives the informant a StatusSinks of its   *)
(* own.                                                                     *)
SpawnInformantOwnSinks ==
    /\ pc = "informant"
    /\ spawned' = Spawn("informant")
    /\ constructed' = Append(constructed, "informant")
    /\ sinks_created' = sinks_created + 1
    /\ sinks_held' = sinks_held \cup
                       {[holder |-> "informant", sinks |-> sinks_created + 1]}
    /\ pc' = "keep_alive"
    /\ UNCHANGED <<config, params, task_manager, logs, handlers, rpc, rpc_handlers,
                   offchain_workers, telemetry, keep_alive, network, failed,
                   result, components>>
    /\ UNCHANGED network_status_sinks
    /\ UNCHANGED <<bridgeVars, sinkVars, genVars, lifeVars, asmRest, extVars>>

(* spawn_handle.spawn("informant", sc_informant::build(.., network_status_sinks.clone(), ..)) *)
SpawnInformant ==
    /\ pc = "informant"
    /\ spawned' = Spawn("informant")
    /\ constructed' = Append(constructed, "informant")
    /\ sinks_held' = HoldSinks("informant")
    /\ pc' = "keep_alive"
    /\ UNCHANGED <<config, params, task_manager, logs, handlers, rpc, rpc_handlers,
                   offchain_workers, telemetry, keep_alive, network, failed,
                   result, components>>
    /\ UNCHANGED <<sinks_created, network_status_sinks>>
    /\ UNCHANGED <<bridgeVars, sinkVars, genVars, lifeVars, asmRest, extVars>>

(* task_manager.keep_alive((telemetry, config.base_path, rpc, rpc_handlers)) *)
(* and Ok(ServiceComponents { .. })                                          *)
ReturnComponents ==
    /\ pc = "keep_alive"
    /\ keep_alive' = [ telemetry    |-> telemetry,
                       base_path    |-> TRUE,
                       rpc          |-> rpc,
                       rpc_handlers |-> rpc_handlers ]
    /\ components' = [ task_manager     |-> TRUE,
                       network          |-> network,
                       rpc_handlers     |-> rpc_handlers,
                       offchain_workers |-> offchain_workers ]
    /\ sinks_held' = HoldSinks("ServiceComponents")
    /\ result' = "ok"
    /\ pc' = "done"
    /\ UNCHANGED <<config, params, task_manager, spawned, logs, handlers, rpc,
                   rpc_handlers, offchain_workers, telemetry, network, failed>>
    /\ UNCHANGED <<sinks_created, network_status_sinks>>
    /\ UNCHANGED <<bridgeVars, sinkVars, genVars, lifeVars, asmVars, extVars>>

NextBuild ==
    \/ GenerateInitialSessionKeys
    \/ BuildNetwork
    \/ SpawnNetworkWorker
    \/ OffchainWorkers
    \/ SpawnTxpoolNotifications
    \/ SpawnOffchainNotifications
    \/ SpawnOnTransactionImported
    \/ PrometheusMetrics
    \/ SpawnTelemetryPeriodicSend
    \/ SpawnTelemetryPeriodicNetworkState
    \/ StartRpcServers
    \/ GenRpcHandlers
    \/ BuildTelemetry
    \/ InstallTracing
    \/ SpawnInformant
    \/ ReturnComponents

----------------------------------------------------------------------------
(* transaction_notifications: the "on-transaction-imported" task *)

Hashes == {"h1", "h2"}

MaxNotifications == 4

InitBridge ==
    /\ emitted = <<>>
    /\ stream = <<>>
    /\ propagated = <<>>
    /\ txpool_import = 0

(* The pool reports `hash` as newly ready on the stream the task holds       *)
(* (transaction_pool.import_notification_stream()).                          *)
PoolImportNotification ==
    /\ "on-transaction-imported" \in Running
    /\ Len(emitted) < MaxNotifications
    /\ \E hash \in Hashes :
         /\ emitted' = Append(emitted, hash)
         /\ stream' = Append(stream, hash)
    /\ UNCHANGED <<propagated, txpool_import>>
    /\ UNCHANGED <<buildVars, sinkVars, genVars, lifeVars, asmVars, wireVars, extVars>>

(* Variant of the for_each body that skips a hash it has propagated before. *)
TransactionNotificationDedup ==
    /\ "on-transaction-imported" \in Running
    /\ stream # <<>>
    /\ LET hash == Head(stream)
       IN  /\ propagated' =
                IF \E i \in 1..Len(propagated) : propagated[i] = hash
                THEN propagated ELSE Append(propagated, hash)
           /\ txpool_import' = txpool_import + 1
           /\ stream' = Tail(stream)
    /\ UNCHANGED emitted
    /\ UNCHANGED <<buildVars, sinkVars, genVars, lifeVars, asmVars, wireVars, extVars>>

(* One turn of .for_each(move |hash| { network.propagate_transaction(hash);  *)
(* telemetry!("txpool.import" ..); ready(()) })                              *)
TransactionNotification ==
    /\ "on-transaction-imported" \in Running
    /\ stream # <<>>
    /\ LET hash == Head(stream)
       IN  /\ propagated' = Append(propagated, hash)
           /\ txpool_import' = txpool_import + 1
           /\ stream' = Tail(stream)
    /\ UNCHANGED emitted
    /\ UNCHANGED <<buildVars, sinkVars, genVars, lifeVars, asmVars, wireVars, extVars>>

NextBridge ==
    \/ PoolImportNotification
    \/ TransactionNotification

----------------------------------------------------------------------------
(* StatusSinks<(NetworkStatus, NetworkState)> *)

MaxSubs == 2
MaxTime == 4
MaxUpdates == 3

Channels == 1..MaxSubs
(* The intervals subscribers ask for, in clock units. *)
Intervals == {1, 2}

(* The producer schedule of the worked example: subscribers of 100ms and    *)
(* 250ms, update called every 50ms, twenty times, the first call up to one  *)
(* period after the subscribers registered. Times are in units of 25ms.     *)
ScenarioUnitMs == 25
ScenarioFast == 100 \div ScenarioUnitMs
ScenarioSlow == 250 \div ScenarioUnitMs
ScenarioPeriod == 50 \div ScenarioUnitMs
ScenarioCalls == 1000 \div 50
ScenarioPhases == 0..ScenarioPeriod
ScenarioEnd == ScenarioPeriod + 1000 \div ScenarioUnitMs

InitSinks ==
    /\ now = 0
    /\ entries = <<>>
    /\ subs = [c \in Channels |-> [receiver |-> "none", interval |-> 0, at |-> 0]]
    /\ delivered = [c \in Channels |-> <<>>]
    /\ updates = 0
    /\ producer = [mode |-> "free", phase |-> 0, next |-> 0]

(* Variant of push whose entry is due at the very next update. *)
StatusSinksPushDueAtOnce(interval, chan) ==
    Append(entries, [chan |-> chan, interval |-> interval, last |-> now - interval])

(* StatusSinks::push(interval, sender): the entry waits a full interval     *)
(* from now before its first delivery.                                       *)
StatusSinksPush(interval, chan) ==
    Append(entries, [chan |-> chan, interval |-> interval, last |-> now])

(* Variant of Elapsed that waits for strictly more than the interval. *)
ElapsedStrict(e) == now - e.last > e.interval

(* Whether an entry's interval has elapsed on the monotonic clock. *)
Elapsed(e) == now - e.last >= e.interval

(* Variant of SendOk that never notices a dropped receiver. *)
SendOkAlways(e) == TRUE

(* Whether a send on the entry's channel succeeds: its receiver is alive. *)
SendOk(e) == subs[e.chan].receiver = "open"

(* Variant of EntriesAfterUpdate that leaves the delivery time stale. *)
EntriesAfterUpdateNoReset ==
    SelectSeq(entries, LAMBDA e : ~Elapsed(e) \/ SendOk(e))

(* The registry after an update: entries not yet due stay as they are, due  *)
(* entries whose send succeeded restart their interval, due entries whose   *)
(* send failed are gone.                                                    *)
EntriesAfterUpdate ==
    LET kept == SelectSeq(entries, LAMBDA e : ~Elapsed(e) \/ SendOk(e))
    IN  [k \in 1..Len(kept) |->
            IF Elapsed(kept[k]) THEN [kept[k] EXCEPT !.last = now] ELSE kept[k]]

(* Variant of DeliveredAfterUpdate that puts the new value first. *)
DeliveredAfterUpdatePrepends(value) ==
    [c \in Channels |->
        IF \E k \in 1..Len(entries) :
               entries[k].chan = c /\ Elapsed(entries[k]) /\ SendOk(entries[k])
        THEN <<(<<value, now>>)>> \o delivered[c]
        ELSE delivered[c]]

(* What each channel holds after an update passing `value`. *)
DeliveredAfterUpdate(value) ==
    [c \in Channels |->
        IF \E k \in 1..Len(entries) :
               entries[k].chan = c /\ Elapsed(entries[k]) /\ SendOk(entries[k])
        THEN Append(delivered[c], <<value, now>>)
        ELSE delivered[c]]

(* A consumer subscribes: let (tx, rx) = tracing_unbounded(..);             *)
(* network_status_sinks.push(interval, tx); then it reads rx.               *)
Subscribe ==
    /\ task_manager = "alive"
    /\ network = "built"
    /\ producer.mode = "free"
    /\ \E c \in Channels, interval \in Intervals :
         /\ subs[c].receiver = "none"
         /\ \A d \in Channels : d < c => subs[d].receiver # "none"
         /\ entries' = StatusSinksPush(interval, c)
         /\ subs' = [subs EXCEPT ![c] =
                        [receiver |-> "open", interval |-> interval, at |-> now]]
    /\ UNCHANGED <<now, delivered, updates, producer>>
    /\ UNCHANGED <<buildVars, bridgeVars, genVars, lifeVars, asmVars, wireVars, extVars>>

(* A consumer goes away: its receiver is dropped. *)
DropReceiver ==
    /\ producer.mode = "free"
    /\ \E c \in Channels :
         /\ subs[c].receiver = "open"
         /\ subs' = [subs EXCEPT ![c].receiver = "dropped"]
    /\ UNCHANGED <<now, entries, delivered, updates, producer>>
    /\ UNCHANGED <<buildVars, bridgeVars, genVars, lifeVars, asmVars, wireVars, extVars>>

(* Whether the periodic producer calls update at the current time. *)
UpdateDue ==
    /\ updates < ScenarioCalls
    /\ now = producer.next

(* The network future reports a new status: update(value). *)
Update ==
    /\ "network-worker" \in Running
    /\ IF producer.mode = "free"
       THEN updates < MaxUpdates /\ UNCHANGED producer
       ELSE UpdateDue /\ producer' = [producer EXCEPT !.next = now + ScenarioPeriod]
    /\ updates' = updates + 1
    /\ entries' = EntriesAfterUpdate
    /\ delivered' = DeliveredAfterUpdate(updates + 1)
    /\ UNCHANGED <<now, subs>>
    /\ UNCHANGED <<buildVars, bridgeVars, genVars, lifeVars, asmVars, wireVars, extVars>>

(* The monotonic clock advances. *)
Tick ==
    /\ IF producer.mode = "free" THEN now < MaxTime
                                 ELSE now < ScenarioEnd /\ ~UpdateDue
    /\ now' = now + 1
    /\ UNCHANGED <<entries, subs, delivered, updates, producer>>
    /\ UNCHANGED <<buildVars, bridgeVars, genVars, lifeVars, asmVars, wireVars, extVars>>

NextSinks ==
    \/ Subscribe
    \/ DropReceiver
    \/ Update
    \/ Tick

(* ---- push and update as calls that take the guard of the subscriber list *)

(* The interval a telemetry task asks for: the short one for                *)
(* telemetry_periodic_send (5000 ms), the long one for                      *)
(* telemetry_periodic_network_state (30 s) and any later subscriber.        *)
TelemetryInterval(c) == IF c = 1 THEN 1 ELSE 2

(* A telemetry task makes its channel and calls push(interval, tx); the     *)
(* call waits for the guard.                                                *)
PushCall ==
    /\ {"telemetry-periodic-send", "telemetry-periodic-network-state"} \cap Running # {}
    /\ pushing = <<>>
    /\ \E c \in Channels :
       \E interval \in {TelemetryInterval(c)} :
         /\ subs[c].receiver = "none"
         /\ \A d \in Channels : d < c => subs[d].receiver # "none"
         /\ pushing' = << [chan |-> c, interval |-> interval] >>
         /\ subs' = [subs EXCEPT ![c] =
                        [receiver |-> "open", interval |-> interval, at |-> now]]
    /\ UNCHANGED <<now, entries, delivered, updates, producer, guard, updating>>
    /\ UNCHANGED <<buildVars, bridgeVars, genVars, lifeVars, asmVars, wireVars>>
    /\ UNCHANGED <<netVars, recipeVars, connVars>>

(* Variant of PushAcquire that gives up when the guard is taken: the call   *)
(* returns without having registered.                                       *)
PushAcquireOrGiveUp ==
    /\ pushing # <<>>
    /\ guard # "push"
    /\ IF guard = "free"
       THEN guard' = "push" /\ UNCHANGED pushing
       ELSE pushing' = <<>> /\ UNCHANGED guard
    /\ UNCHANGED <<sinkVars, updating>>
    /\ UNCHANGED <<buildVars, bridgeVars, genVars, lifeVars, asmVars, wireVars>>
    /\ UNCHANGED <<netVars, recipeVars, connVars>>

(* push takes the guard once it is free. *)
PushAcquire ==
    /\ pushing # <<>>
    /\ guard = "free"
    /\ guard' = "push"
    /\ UNCHANGED <<sinkVars, pushing, updating>>
    /\ UNCHANGED <<buildVars, bridgeVars, genVars, lifeVars, asmVars, wireVars>>
    /\ UNCHANGED <<netVars, recipeVars, connVars>>

(* push appends its entry under the guard, releases it and returns. *)
PushAppend ==
    /\ guard = "push"
    /\ entries' = StatusSinksPush(pushing[1].interval, pushing[1].chan)
    /\ pushing' = <<>>
    /\ guard' = "free"
    /\ UNCHANGED <<now, subs, delivered, updates, producer, updating>>
    /\ UNCHANGED <<buildVars, bridgeVars, genVars, lifeVars, asmVars, wireVars>>
    /\ UNCHANGED <<netVars, recipeVars, connVars>>

(* The network future calls update(value); the call waits for the guard. *)
UpdateCall ==
    /\ "network-worker" \in Running
    /\ producer.mode = "free"
    /\ updating = <<>>
    /\ updates < MaxUpdates
    /\ updates' = updates + 1
    /\ updating' = << updates + 1 >>
    /\ UNCHANGED <<now, entries, subs, delivered, producer, guard, pushing>>
    /\ UNCHANGED <<buildVars, bridgeVars, genVars, lifeVars, asmVars, wireVars>>
    /\ UNCHANGED <<netVars, recipeVars, connVars>>

(* update takes the guard once it is free. *)
UpdateAcquire ==
    /\ updating # <<>>
    /\ guard = "free"
    /\ guard' = "update"
    /\ UNCHANGED <<sinkVars, pushing, updating>>
    /\ UNCHANGED <<buildVars, bridgeVars, genVars, lifeVars, asmVars, wireVars>>
    /\ UNCHANGED <<netVars, recipeVars, connVars>>

(* update sends to the due entries and prunes under the guard, releases it  *)
(* and returns.                                                             *)
UpdateRelease ==
    /\ guard = "update"
    /\ entries' = EntriesAfterUpdate
    /\ delivered' = DeliveredAfterUpdate(updating[1])
    /\ updating' = <<>>
    /\ guard' = "free"
    /\ UNCHANGED <<now, subs, updates, producer, pushing>>
    /\ UNCHANGED <<buildVars, bridgeVars, genVars, lifeVars, asmVars, wireVars>>
    /\ UNCHANGED <<netVars, recipeVars, connVars>>

NextGuarded ==
    \/ PushCall
    \/ PushAcquire
    \/ PushAppend
    \/ UpdateCall
    \/ UpdateAcquire
    \/ UpdateRelease
    \/ DropReceiver
    \/ Tick

----------------------------------------------------------------------------
(* new_full_parts, new_light_parts, Builder::build_full, Builder::build_light *)

MaxBuilds == 2

(* The steps of each function in source order. `at` names the step, `part`  *)
(* the part of the node it constructs ("none" for a helper value), `err`    *)
(* the error a `?` at that step returns ("none" when it cannot fail) and    *)
(* `handle` whether the component is constructed with a SpawnTaskHandle.    *)
NewFullPartsSteps ==
    << [at |-> "keystore",      part |-> "keystore",     err |-> "keystore",     handle |-> FALSE],
       [at |-> "task_manager",  part |-> "task_manager", err |-> "task_manager", handle |-> FALSE],
       [at |-> "executor",      part |-> "executor",     err |-> "none",         handle |-> FALSE],
       [at |-> "backend",       part |-> "client",       err |-> "storage",      handle |-> FALSE],
       [at |-> "call_executor", part |-> "client",       err |-> "none",         handle |-> TRUE],
       [at |-> "client",        part |-> "client",       err |-> "client",       handle |-> FALSE] >>

(* Variant of new_light_parts that builds the fetch checker, spawn handle   *)
(* included, before it opens the light storage.                             *)
NewLightPartsStepsStorageLate ==
    << [at |-> "task_manager",  part |-> "task_manager", err |-> "task_manager", handle |-> FALSE],
       [at |-> "keystore",      part |-> "keystore",     err |-> "keystore",     handle |-> FALSE],
       [at |-> "executor",      part |-> "executor",     err |-> "none",         handle |-> FALSE],
       [at |-> "fetch_checker", part |-> "client",       err |-> "none",         handle |-> TRUE],
       [at |-> "db_storage",    part |-> "client",       err |-> "storage",      handle |-> FALSE],
       [at |-> "backend",       part |-> "client",       err |-> "none",         handle |-> FALSE],
       [at |-> "client",        part |-> "client",       err |-> "client",       handle |-> TRUE] >>

NewLightPartsSteps ==
    << [at |-> "task_manager",  part |-> "task_manager", err |-> "task_manager", handle |-> FALSE],
       [at |-> "keystore",      part |-> "keystore",     err |-> "keystore",     handle |-> FALSE],
       [at |-> "executor",      part |-> "executor",     err |-> "none",         handle |-> FALSE],
       [at |-> "db_storage",    part |-> "client",       err |-> "storage",      handle |-> FALSE],
       [at |-> "fetch_checker", part |-> "client",       err |-> "none",         handle |-> TRUE],
       [at |-> "backend",       part |-> "client",       err |-> "none",         handle |-> FALSE],
       [at |-> "client",        part |-> "client",       err |-> "client",       handle |-> TRUE] >>

(* Variant of Builder::build_full that builds the import queue before the   *)
(* block import it is made from.                                            *)
BuildFullStepsImportQueueFirst ==
    << [at |-> "transaction_pool", part |-> "transaction_pool", err |-> "none", handle |-> TRUE],
       [at |-> "select_chain",     part |-> "select_chain",     err |-> "none", handle |-> FALSE],
       [at |-> "import_queue",     part |-> "import_queue",     err |-> "import_queue", handle |-> TRUE],
       [at |-> "block_import",     part |-> "block_import",     err |-> "block_import", handle |-> FALSE],
       [at |-> "finality_proof_provider", part |-> "finality_proof_provider",
                                           err |-> "none", handle |-> FALSE],
       [at |-> "rpc_extensions",   part |-> "none",             err |-> "none", handle |-> FALSE] >>

BuildFullSteps ==
    << [at |-> "transaction_pool", part |-> "transaction_pool", err |-> "none", handle |-> TRUE],
       [at |-> "select_chain",     part |-> "select_chain",     err |-> "none", handle |-> FALSE],
       [at |-> "block_import",     part |-> "block_import",     err |-> "block_import", handle |-> FALSE],
       [at |-> "import_queue",     part |-> "import_queue",     err |-> "import_queue", handle |-> TRUE],
       [at |-> "finality_proof_provider", part |-> "finality_proof_provider",
                                           err |-> "none", handle |-> FALSE],
       [at |-> "rpc_extensions",   part |-> "none",             err |-> "none", handle |-> FALSE] >>

BuildLightSteps ==
    << [at |-> "transaction_pool", part |-> "transaction_pool", err |-> "none", handle |-> TRUE],
       [at |-> "block_import",     part |-> "block_import",     err |-> "block_import", handle |-> FALSE],
       [at |-> "select_chain",     part |-> "select_chain",     err |-> "none", handle |-> FALSE],
       [at |-> "import_queue",     part |-> "import_queue",     err |-> "import_queue", handle |-> TRUE],
       [at |-> "finality_proof_provider", part |-> "finality_proof_provider",
                                           err |-> "none", handle |-> FALSE] >>

(* The implementors of the capability families: LongestChainBuilder and,   *)
(* the trait being open, any other chain selector; GrandpaBlockImportBuilder *)
(* over a chain selector; the Aura and Babe import-queue builders over a    *)
(* block-import builder.                                                    *)
SelectChainBuilders == {"LongestChainBuilder", "OtherSelectChainBuilder"}

BlockImportBuilders ==
    { [name |-> "GrandpaBlockImportBuilder", SelectChainBuilder |-> sc] :
        sc \in SelectChainBuilders }

ImportQueueBuilders ==
    { [name |-> n, BlockImportBuilder |-> b] :
        n \in {"AuraImportQueueBuilder", "BabeImportQueueBuilder"},
        b \in BlockImportBuilders }

(* The associated types an `impl Builder` may name. *)
Recipes ==
    [ ImportQueueBuilder : ImportQueueBuilders,
      BlockImportBuilder : BlockImportBuilders,
      SelectChainBuilder : SelectChainBuilders ]

(* Variant of TypeChecks that leaves the chain selector unconstrained. *)
TypeChecksAnySelectChain(r) ==
    r.ImportQueueBuilder.BlockImportBuilder = r.BlockImportBuilder

(* The bounds of trait Builder on its associated types:                     *)
(*   type BlockImportBuilder: BlockImportBuilder<.., SelectChainBuilder=Self::SelectChainBuilder> *)
(*   type ImportQueueBuilder: ImportQueueBuilder<.., BlockImportBuilder=Self::BlockImportBuilder> *)
TypeChecks(r) ==
    /\ r.BlockImportBuilder.SelectChainBuilder = r.SelectChainBuilder
    /\ r.ImportQueueBuilder.BlockImportBuilder = r.BlockImportBuilder

(* AuraImportQueueBuilder::build_light: import_queue(slot_duration,         *)
(*     block_import.clone(), None, Some(Box::new(block_import)), ..)        *)
AuraImportQueueBuilderBuildLight(block_import) ==
    [ built_by |-> "AuraImportQueueBuilder", mode |-> "light",
      block_import |-> block_import, wrapper |-> "none",
      justification_import |-> "none", finality_proof_import |-> block_import ]

(* AuraImportQueueBuilder::build_full: import_queue(slot_duration,          *)
(*     aura_block_import.clone(), Some(Box::new(block_import)), None, ..)   *)
AuraImportQueueBuilderBuildFull(block_import) ==
    [ built_by |-> "AuraImportQueueBuilder", mode |-> "full",
      block_import |-> block_import, wrapper |-> "AuraBlockImport",
      justification_import |-> block_import, finality_proof_import |-> "none" ]

(* Variant of BabeImportQueueBuilderBuildLight with the two optional        *)
(* imports in the order build_full gives them.                              *)
BabeImportQueueBuilderBuildLightAsFull(block_import) ==
    [ built_by |-> "BabeImportQueueBuilder", mode |-> "light",
      block_import |-> block_import, wrapper |-> "BabeBlockImport",
      justification_import |-> block_import, finality_proof_import |-> "none" ]

(* BabeImportQueueBuilder::build_light: import_queue(babe_link,             *)
(*     babe_block_import, None, Some(Box::new(block_import)), ..)           *)
BabeImportQueueBuilderBuildLight(block_import) ==
    [ built_by |-> "BabeImportQueueBuilder", mode |-> "light",
      block_import |-> block_import, wrapper |-> "BabeBlockImport",
      justification_import |-> "none", finality_proof_import |-> block_import ]

(* BabeImportQueueBuilder::build_full: import_queue(babe_link.clone(),      *)
(*     babe_block_import.clone(), Some(Box::new(block_import)), None, ..)   *)
BabeImportQueueBuilderBuildFull(block_import) ==
    [ built_by |-> "BabeImportQueueBuilder", mode |-> "full",
      block_import |-> block_import, wrapper |-> "BabeBlockImport",
      justification_import |-> block_import, finality_proof_import |-> "none" ]

(* Self::ImportQueueBuilder::build_light / build_full on the block import   *)
(* Self::BlockImportBuilder built for the same shape.                       *)
ImportQueueBuilderBuild(builder, sh) ==
    IF builder.name = "AuraImportQueueBuilder"
    THEN (IF sh = "light" THEN AuraImportQueueBuilderBuildLight("LightBlockImport")
          ELSE AuraImportQueueBuilderBuildFull("FullBlockImport"))
    ELSE (IF sh = "light" THEN BabeImportQueueBuilderBuildLight("LightBlockImport")
          ELSE BabeImportQueueBuilderBuildFull("FullBlockImport"))

(* The ServiceParams fields before any ServiceParams exists. *)
NoParams ==
    [ offchain_storage       |-> FALSE,
      on_demand              |-> FALSE,
      remote_blockchain      |-> FALSE,
      rpc_extensions_builder |-> NoopRpcExtensionBuilder({}) ]

(* The next step of `steps`: it constructs its component, or its `?`        *)
(* returns the error to the caller, dropping what the function had built,   *)
(* the task manager included. After the last step the function returns and  *)
(* assembly is at `next_fn`.                                                *)
RunStep(steps, next_fn) ==
    LET st == steps[step + 1]
    IN  \E ok \in BOOLEAN :
          IF ok \/ st.err = "none"
          THEN /\ constructed' = IF st.part = "none" THEN constructed
                                 ELSE Append(constructed, st.part)
               /\ handles' = IF st.handle THEN handles \cup {st.at} ELSE handles
               /\ task_manager' = IF st.at = "task_manager" THEN "alive"
                                  ELSE task_manager
               /\ import_queue' =
                    IF st.at = "import_queue"
                    THEN ImportQueueBuilderBuild(recipe.ImportQueueBuilder, shape)
                    ELSE import_queue
               /\ IF step + 1 = Len(steps)
                  THEN fn' = next_fn /\ step' = 0
                  ELSE fn' = fn /\ step' = step + 1
               /\ UNCHANGED parts_failed
          ELSE /\ parts_failed' = st.err
               /\ fn' = "failed"
               /\ task_manager' = IF task_manager = "alive" THEN "dropped"
                                  ELSE task_manager
               /\ UNCHANGED <<constructed, handles, step, import_queue>>

(* The compiler checks the `impl Builder` against the bounds of the trait;  *)
(* a program whose implementation fails them is never built.                *)
Compile ==
    /\ fn = "idle"
    /\ compiled = "no"
    /\ recipe \in Recipes
    /\ compiled' = IF TypeChecks(recipe) THEN "accepted" ELSE "rejected"
    /\ UNCHANGED <<recipe, import_queue, network_inputs, netVars, lockVars, connVars>>
    /\ UNCHANGED <<buildVars, bridgeVars, sinkVars, genVars, lifeVars, asmVars, wireVars>>

(* The caller picks Builder::build_full or Builder::build_light, whose      *)
(* first statement calls new_full_parts / new_light_parts.                  *)
CallBuilder ==
    /\ fn = "idle"
    /\ compiled = "accepted"
    /\ \E sh \in {"full", "light"} : shape' = sh
    /\ fn' = "new_parts"
    /\ UNCHANGED <<step, constructed, handles, service_params, builds, parts_failed>>
    /\ UNCHANGED <<buildVars, bridgeVars, sinkVars, genVars, lifeVars, wireVars, extVars>>

NewFullParts ==
    /\ shape = "full"
    /\ fn = "new_parts"
    /\ RunStep(NewFullPartsSteps, "wiring")
    /\ UNCHANGED <<shape, service_params, builds>>
    /\ UNCHANGED <<pc, config, params, spawned, logs, handlers, rpc, rpc_handlers,
                   offchain_workers, telemetry, keep_alive, network, failed,
                   result, components>>
    /\ UNCHANGED <<bridgeVars, sinkVars, genVars, lifeVars, wireVars>>
    /\ UNCHANGED <<recipe, compiled, network_inputs, netVars, lockVars, connVars>>

NewLightParts ==
    /\ shape = "light"
    /\ fn = "new_parts"
    /\ RunStep(NewLightPartsSteps, "wiring")
    /\ UNCHANGED <<shape, service_params, builds>>
    /\ UNCHANGED <<pc, config, params, spawned, logs, handlers, rpc, rpc_handlers,
                   offchain_workers, telemetry, keep_alive, network, failed,
                   result, components>>
    /\ UNCHANGED <<bridgeVars, sinkVars, genVars, lifeVars, wireVars>>
    /\ UNCHANGED <<recipe, compiled, network_inputs, netVars, lockVars, connVars>>

(* Builder::build_full after new_full_parts returned *)
BuilderBuildFull ==
    /\ shape = "full"
    /\ fn = "wiring"
    /\ RunStep(BuildFullSteps, "params")
    /\ UNCHANGED <<shape, service_params, builds>>
    /\ UNCHANGED <<pc, config, params, spawned, logs, handlers, rpc, rpc_handlers,
                   offchain_workers, telemetry, keep_alive, network, failed,
                   result, components>>
    /\ UNCHANGED <<bridgeVars, sinkVars, genVars, lifeVars, wireVars>>
    /\ UNCHANGED <<recipe, compiled, network_inputs, netVars, lockVars, connVars>>

(* Builder::build_light after new_light_parts returned *)
BuilderBuildLight ==
    /\ shape = "light"
    /\ fn = "wiring"
    /\ RunStep(BuildLightSteps, "params")
    /\ UNCHANGED <<shape, service_params, builds>>
    /\ UNCHANGED <<pc, config, params, spawned, logs, handlers, rpc, rpc_handlers,
                   offchain_workers, telemetry, keep_alive, network, failed,
                   result, components>>
    /\ UNCHANGED <<bridgeVars, sinkVars, genVars, lifeVars, wireVars>>
    /\ UNCHANGED <<recipe, compiled, network_inputs, netVars, lockVars, connVars>>

(* Variant of ReturnServiceParams whose light parameters carry no           *)
(* finality-proof request builder.                                          *)
ReturnServiceParamsNoRequestBuilder ==
    /\ fn = "params"
    /\ \E storage \in BOOLEAN, ext \in ExtBuilders :
         params' =
            IF shape = "light"
            THEN [ offchain_storage       |-> storage,
                   on_demand              |-> TRUE,
                   remote_blockchain      |-> TRUE,
                   rpc_extensions_builder |-> NoopRpcExtensionBuilder({}) ]
            ELSE [ offchain_storage       |-> storage,
                   on_demand              |-> FALSE,
                   remote_blockchain      |-> FALSE,
                   rpc_extensions_builder |-> ext ]
    /\ network_inputs' =
         [ block_announce_validator_builder |-> FALSE,
           finality_proof_request_builder   |-> FALSE,
           finality_proof_provider          |-> TRUE ]
    /\ service_params' = "ready"
    /\ fn' = "wired"
    /\ UNCHANGED <<shape, step, constructed, handles, builds, parts_failed>>
    /\ UNCHANGED <<pc, config, task_manager, spawned, logs, handlers, rpc,
                   rpc_handlers, offchain_workers, telemetry, keep_alive, network,
                   failed, result, components>>
    /\ UNCHANGED <<bridgeVars, sinkVars, genVars, lifeVars, wireVars>>
    /\ UNCHANGED <<recipe, compiled, import_queue, netVars, lockVars, connVars>>

(* Ok(ServiceParams { .. }): the light builder sets on_demand and           *)
(* remote_blockchain and a unit extension builder, the full builder sets    *)
(* neither and takes the extension builder from rpc_extensions; whether the *)
(* backend has offchain storage is the backend's own matter.                *)
ReturnServiceParams ==
    /\ fn = "params"
    /\ \E storage \in BOOLEAN, ext \in ExtBuilders :
         params' =
            IF shape = "light"
            THEN [ offchain_storage       |-> storage,
                   on_demand              |-> TRUE,
                   remote_blockchain      |-> TRUE,
                   rpc_extensions_builder |-> NoopRpcExtensionBuilder({}) ]
            ELSE [ offchain_storage       |-> storage,
                   on_demand              |-> FALSE,
                   remote_blockchain      |-> FALSE,
                   rpc_extensions_builder |-> ext ]
    /\ network_inputs' =
         [ block_announce_validator_builder |-> FALSE,
           finality_proof_request_builder   |-> (shape = "light"),
           finality_proof_provider          |-> TRUE ]
    /\ service_params' = "ready"
    /\ fn' = "wired"
    /\ UNCHANGED <<shape, step, constructed, handles, builds, parts_failed>>
    /\ UNCHANGED <<pc, config, task_manager, spawned, logs, handlers, rpc,
                   rpc_handlers, offchain_workers, telemetry, keep_alive, network,
                   failed, result, components>>
    /\ UNCHANGED <<bridgeVars, sinkVars, genVars, lifeVars, wireVars>>
    /\ UNCHANGED <<recipe, compiled, import_queue, netVars, lockVars, connVars>>

(* Variant of BuildEntry for a build that borrows its ServiceParams. *)
BuildEntryBorrows ==
    /\ service_params = "ready"
    /\ pc \in {"unbuilt", "done"}
    /\ builds < MaxBuilds
    /\ builds' = builds + 1
    /\ fn' = "build"
    /\ pc' = "start"
    /\ UNCHANGED <<shape, step, constructed, handles, service_params, parts_failed>>
    /\ UNCHANGED <<config, params, task_manager, spawned, logs, handlers, rpc,
                   rpc_handlers, offchain_workers, telemetry, keep_alive, network,
                   failed, result, components>>
    /\ UNCHANGED <<bridgeVars, sinkVars, genVars, lifeVars, wireVars, extVars>>

(* build(builder: ServiceParams): the caller, not inside build, passes its  *)
(* ServiceParams by value; `let ServiceParams { .. } = builder` takes it    *)
(* apart.                                                                   *)
BuildEntry ==
    /\ service_params = "ready"
    /\ pc \in {"unbuilt", "done"}
    /\ builds < MaxBuilds
    /\ service_params' = "moved"
    /\ builds' = builds + 1
    /\ fn' = "build"
    /\ pc' = "start"
    /\ UNCHANGED <<shape, step, constructed, handles, parts_failed>>
    /\ UNCHANGED <<config, params, task_manager, spawned, logs, handlers, rpc,
                   rpc_handlers, offchain_workers, telemetry, keep_alive, network,
                   failed, result, components>>
    /\ UNCHANGED <<bridgeVars, sinkVars, genVars, lifeVars, wireVars, extVars>>

NextAssembly ==
    \/ Compile
    \/ CallBuilder
    \/ NewFullParts
    \/ NewLightParts
    \/ BuilderBuildFull
    \/ BuilderBuildLight
    \/ ReturnServiceParams
    \/ BuildEntry

----------------------------------------------------------------------------
(* The life of the spawned tasks *)

MaxClosed == 2

(* The tasks whose future is a for_each over an input stream: the pool's    *)
(* import notifications, the two status channels, the telemetry events.     *)
StreamTasks ==
    { "on-transaction-imported", "telemetry-periodic-send",
      "telemetry-periodic-network-state", "telemetry-worker" }

(* The input stream of a spawned forwarding task ends: its sender is gone. *)
StreamEnds ==
    /\ Cardinality(stream_closed) < MaxClosed
    /\ \E name \in (StreamTasks \cap SpawnedNames) \ stream_closed :
         stream_closed' = stream_closed \cup {name}
    /\ UNCHANGED <<ended, released>>
    /\ UNCHANGED <<buildVars, bridgeVars, sinkVars, genVars, asmVars, wireVars, extVars>>

(* Variant of TaskCompletes in which the task returns after an item while   *)
(* its stream is still open.                                                *)
TaskCompletesEarly ==
    /\ \E name \in (StreamTasks \cap Running) :
         ended' = ended \cup {name}
    /\ UNCHANGED <<stream_closed, released>>
    /\ UNCHANGED <<buildVars, bridgeVars, sinkVars, genVars, asmVars, wireVars, extVars>>

(* stream.for_each(..).await returns: the future of a forwarding task       *)
(* completes once its stream has ended.                                     *)
TaskCompletes ==
    /\ \E name \in (StreamTasks \cap Running) \cap stream_closed :
         ended' = ended \cup {name}
    /\ UNCHANGED <<stream_closed, released>>
    /\ UNCHANGED <<buildVars, bridgeVars, sinkVars, genVars, asmVars, wireVars, extVars>>

(* prometheus_endpoint::init_prometheus(port, registry).map(drop): the      *)
(* exporter fails to start or stops; its result is dropped inside the task. *)
TaskFails ==
    /\ "prometheus-endpoint" \in Running
    /\ ended' = ended \cup {"prometheus-endpoint"}
    /\ UNCHANGED <<stream_closed, released>>
    /\ UNCHANGED <<buildVars, bridgeVars, sinkVars, genVars, asmVars, wireVars, extVars>>

(* The owner of ServiceComponents drops the task manager: every task stops  *)
(* and what the keep-alive bag holds is dropped with it.                    *)
DropTaskManager ==
    /\ pc = "done"
    /\ result = "ok"
    /\ task_manager = "alive"
    /\ task_manager' = "dropped"
    /\ released' = DOMAIN keep_alive
    /\ UNCHANGED <<pc, config, params, spawned, logs, handlers, rpc, rpc_handlers,
                   offchain_workers, telemetry, keep_alive, network, failed,
                   result, components>>
    /\ UNCHANGED <<ended, stream_closed>>
    /\ UNCHANGED <<bridgeVars, sinkVars, genVars, asmVars, wireVars, extVars>>

NextLife ==
    \/ StreamEnds
    \/ TaskCompletes
    \/ TaskFails
    \/ DropTaskManager

----------------------------------------------------------------------------
(* The telemetry worker and the on-connect sinks *)

OnConnectList ==
    {telemetry_connection_sinks[k] : k \in 1..Len(telemetry_connection_sinks)}

(* sink.unbounded_send(()).is_ok(): the send succeeds while the receiver    *)
(* of the channel is alive.                                                 *)
OnConnectSendOk(i) == on_connect[i].receiver = "open"

(* TelemetryOnConnectSinks::on_connect_stream on the returned components:   *)
(* a new channel, its sender appended to the list, its receiver returned.   *)
OnConnectStream ==
    /\ result = "ok"
    /\ \E i \in OnConnectIds :
         /\ on_connect[i].receiver = "none"
         /\ \A j \in OnConnectIds : j < i => on_connect[j].receiver # "none"
         /\ telemetry_connection_sinks' = Append(telemetry_connection_sinks, i)
         /\ on_connect' = [on_connect EXCEPT
                             ![i] = [receiver |-> "open", got |-> 0,
                                     since |-> connected]]
    /\ UNCHANGED connected
    /\ UNCHANGED <<buildVars, bridgeVars, sinkVars, genVars, lifeVars, asmVars, wireVars>>
    /\ UNCHANGED <<netVars, recipeVars, lockVars>>

(* The holder of an on-connect stream drops it. *)
DropOnConnectReceiver ==
    /\ \E i \in OnConnectIds :
         /\ on_connect[i].receiver = "open"
         /\ on_connect' = [on_connect EXCEPT ![i].receiver = "dropped"]
    /\ UNCHANGED <<telemetry_connection_sinks, connected>>
    /\ UNCHANGED <<buildVars, bridgeVars, sinkVars, genVars, lifeVars, asmVars, wireVars>>
    /\ UNCHANGED <<netVars, recipeVars, lockVars>>

(* Variant of TelemetryConnected that keeps the sinks whose send failed     *)
(* and removes the others.                                                  *)
TelemetryConnectedRetainsFailed ==
    /\ "telemetry-worker" \in Running
    /\ connected < MaxConnected
    /\ connected' = connected + 1
    /\ on_connect' =
         [i \in OnConnectIds |->
            IF i \in OnConnectList /\ OnConnectSendOk(i)
            THEN [on_connect[i] EXCEPT !.got = @ + 1]
            ELSE on_connect[i]]
    /\ telemetry_connection_sinks' =
         SelectSeq(telemetry_connection_sinks, LAMBDA i : ~OnConnectSendOk(i))
    /\ UNCHANGED <<buildVars, bridgeVars, sinkVars, genVars, lifeVars, asmVars, wireVars>>
    /\ UNCHANGED <<netVars, recipeVars, lockVars>>

(* The telemetry worker takes a TelemetryEvent::Connected from the stream:  *)
(* telemetry_connection_sinks.lock().retain(|sink|                          *)
(*     sink.unbounded_send(()).is_ok())                                     *)
TelemetryConnected ==
    /\ "telemetry-worker" \in Running
    /\ connected < MaxConnected
    /\ connected' = connected + 1
    /\ on_connect' =
         [i \in OnConnectIds |->
            IF i \in OnConnectList /\ OnConnectSendOk(i)
            THEN [on_connect[i] EXCEPT !.got = @ + 1]
            ELSE on_connect[i]]
    /\ telemetry_connection_sinks' =
         SelectSeq(telemetry_connection_sinks, OnConnectSendOk)
    /\ UNCHANGED <<buildVars, bridgeVars, sinkVars, genVars, lifeVars, asmVars, wireVars>>
    /\ UNCHANGED <<netVars, recipeVars, lockVars>>

NextTelemetry ==
    \/ OnConnectStream
    \/ DropOnConnectReceiver
    \/ TelemetryConnected

----------------------------------------------------------------------------
(* The assembled node: build has returned ServiceComponents for a           *)
(* configuration with every optional feature off.                           *)
RunningNode ==
    /\ pc = "done"
    /\ config = [ role                         |-> "Full",
                  offchain_worker_enabled      |-> FALSE,
                  prometheus_config            |-> FALSE,
                  telemetry_endpoints          |-> FALSE,
                  telemetry_external_transport |-> FALSE,
                  tracing_targets              |-> FALSE,
                  protocol_id                  |-> TRUE ]
    /\ params = [ offchain_storage       |-> FALSE,
                  on_demand              |-> FALSE,
                  remote_blockchain      |-> FALSE,
                  rpc_extensions_builder |-> NoopRpcExtensionBuilder(ExtNames) ]
    /\ task_manager = "alive"
    /\ spawned =
         [i \in 1..6 |->
            [ name |-> << "network-worker", "txpool-notifications",
                          "on-transaction-imported", "telemetry-periodic-send",
                          "telemetry-periodic-network-state", "informant" >>[i],
              lane |-> IF i = 1 THEN "blocking" ELSE "cooperative",
              registry |-> SpawnHandle ]]
    /\ logs = <<>>
    /\ handlers = << GenHandlerClosure("No") >>
    /\ rpc = {}
    /\ rpc_handlers = 1
    /\ offchain_workers = "none"
    /\ telemetry = "none"
    /\ keep_alive = [ telemetry |-> "none", base_path |-> TRUE, rpc |-> {},
                      rpc_handlers |-> 1 ]
    /\ network = "built"
    /\ failed = {}
    /\ result = "ok"
    /\ components = [ task_manager |-> TRUE, network |-> "built",
                      rpc_handlers |-> 1, offchain_workers |-> "none" ]
    /\ InitLife
    /\ InitHandedOver
    /\ constructed = <<"network", "rpc", "informant">>
    /\ sinks_created = 1
    /\ network_status_sinks = 1
    /\ sinks_held = { [holder |-> h, sinks |-> 1] :
                        h \in { "network_future", "telemetry-periodic-send",
                                "telemetry-periodic-network-state", "informant",
                                "ServiceComponents" } }
    /\ InitRecipeCaller /\ InitLock /\ InitConn
    /\ network_params = << NetworkParams(config, params.on_demand, network_inputs) >>

(* The worked example's start: both subscribers registered at time 0. *)
InitScenario ==
    /\ now = 0
    /\ entries = << [chan |-> 1, interval |-> ScenarioFast, last |-> 0],
                    [chan |-> 2, interval |-> ScenarioSlow, last |-> 0] >>
    /\ subs = [c \in Channels |->
                 IF c = 1 THEN [receiver |-> "open", interval |-> ScenarioFast, at |-> 0]
                 ELSE IF c = 2
                 THEN [receiver |-> "open", interval |-> ScenarioSlow, at |-> 0]
                 ELSE [receiver |-> "none", interval |-> 0, at |-> 0]]
    /\ delivered = [c \in Channels |-> <<>>]
    /\ updates = 0
    /\ \E phase \in ScenarioPhases :
         producer = [mode |-> "periodic", phase |-> phase, next |-> phase]

----------------------------------------------------------------------------
(* gen_handler as a function of its inputs: both safety levels generated    *)
(* from the same constructors, and requests dispatched through the tables.  *)

GenInputs ==
    [ on_demand         : BOOLEAN,
      remote_blockchain : BOOLEAN,
      offchain_storage  : BOOLEAN,
      builder           : ClosureBuilders ]

AllMethods == BuiltinApi \cup ExtNames \cup {"unknown_method"}

NoCall == [via |-> "none", method |-> "none", outcome |-> "none"]

Generated == DOMAIN tables # {}

InitGen ==
    /\ gen_inputs = [ on_demand |-> FALSE, remote_blockchain |-> FALSE,
                      offchain_storage |-> FALSE,
                      builder |-> NoopRpcExtensionBuilder(ExtNames) ]
    /\ tables = <<>>
    /\ call = NoCall

InitGenInputs ==
    /\ gen_inputs \in GenInputs
    /\ tables = <<>>
    /\ call = NoCall

(* gen_handler(DenyUnsafe::Yes, ..) and gen_handler(DenyUnsafe::No, ..) on  *)
(* the same inputs.                                                         *)
GenerateTables ==
    /\ ~Generated
    /\ tables' =
         [ safe   |-> GenHandler("Yes", gen_inputs.on_demand,
                                 gen_inputs.remote_blockchain,
                                 gen_inputs.offchain_storage, gen_inputs.builder),
           unsafe |-> GenHandler("No", gen_inputs.on_demand,
                                 gen_inputs.remote_blockchain,
                                 gen_inputs.offchain_storage, gen_inputs.builder) ]
    /\ UNCHANGED <<gen_inputs, call>>
    /\ UNCHANGED <<buildVars, bridgeVars, sinkVars, lifeVars, asmVars, wireVars, extVars>>

(* A request for a method name reaches one of the two tables. *)
CallMethod ==
    /\ Generated
    /\ \E via \in {"safe", "unsafe"}, method \in AllMethods :
         call' = [ via |-> via, method |-> method,
                   outcome |-> Dispatch(tables[via], method).outcome ]
    /\ UNCHANGED <<gen_inputs, tables>>
    /\ UNCHANGED <<buildVars, bridgeVars, sinkVars, lifeVars, asmVars, wireVars, extVars>>

NextGen ==
    \/ GenerateTables
    \/ CallMethod

----------------------------------------------------------------------------
Init ==
    /\ InitBuild /\ InitBridge /\ InitSinks /\ InitGen
    /\ InitLife /\ InitHandedOver /\ constructed = <<>> /\ InitWire
    /\ network_params = <<>>
    /\ InitRecipeCaller /\ InitLock /\ InitConn

Next == NextBuild

Spec == Init /\ [][Next]_vars

(* The bridge task of an assembled node. *)
InitRunningBridge == RunningNode /\ InitBridge /\ InitSinks /\ InitGen

SpecBridge == InitRunningBridge /\ [][NextBridge]_vars

(* The status sinks of an assembled node, the producer free or periodic. *)
InitRunningSinks ==
    RunningNode /\ InitBridge /\ (InitSinks \/ InitScenario) /\ InitGen

SpecSinks == InitRunningSinks /\ [][NextSinks]_vars

(* The handler generator over every choice of its inputs. *)
InitGenerator == RunningNode /\ InitBridge /\ InitSinks /\ InitGenInputs

SpecGen == InitGenerator /\ [][NextGen]_vars

(* build with the tasks it has spawned ending, failing, and the task        *)
(* manager dropped by the caller afterwards.                                *)
LifeConfigs ==
    { c \in Configs : /\ c.role = "Full"
                      /\ ~c.offchain_worker_enabled /\ ~c.tracing_targets
                      /\ ~c.telemetry_external_transport /\ c.protocol_id }

InitLifeBuild ==
    /\ Init
    /\ config \in LifeConfigs
    /\ params = [ offchain_storage       |-> FALSE,
                  on_demand              |-> FALSE,
                  remote_blockchain      |-> FALSE,
                  rpc_extensions_builder |-> NoopRpcExtensionBuilder(ExtNames) ]

SpecLife == InitLifeBuild /\ [][NextBuild \/ NextLife]_vars

(* An assembled node at work, bridge and status producer, until the task    *)
(* manager is dropped.                                                      *)
InitRunningShutdown == RunningNode /\ InitBridge /\ InitScenario /\ InitGen

NextShutdown ==
    \/ PoolImportNotification
    \/ TransactionNotification
    \/ Update
    \/ Tick
    \/ DropTaskManager

SpecShutdown == InitRunningShutdown /\ [][NextShutdown]_vars

(* Assembly from a bare Configuration: parts, wiring, then build. *)
InitUnconfigured ==
    /\ pc = "unbuilt"
    /\ config \in LifeConfigs
    /\ params = NoParams
    /\ task_manager = "none"
    /\ spawned = <<>>
    /\ logs = <<>>
    /\ handlers = <<>>
    /\ rpc = {}
    /\ rpc_handlers = 0
    /\ offchain_workers = "unset"
    /\ telemetry = "unset"
    /\ keep_alive = "empty"
    /\ network = "unset"
    /\ failed = {}
    /\ result = "none"
    /\ components = "none"
    /\ shape = "none"
    /\ fn = "idle"
    /\ step = 0
    /\ constructed = <<>>
    /\ handles = {}
    /\ service_params = "none"
    /\ builds = 0
    /\ parts_failed = "none"
    /\ InitBridge /\ InitSinks /\ InitGen /\ InitLife /\ InitWire
    /\ network_params = <<>>
    /\ recipe \in Recipes
    /\ compiled = "no"
    /\ import_queue = NoImportQueue
    /\ network_inputs = NoNetworkInputs
    /\ InitLock /\ InitConn

SpecAssembly == InitUnconfigured /\ [][NextAssembly \/ NextBuild]_vars


(* build with telemetry endpoints configured or not, then the telemetry     *)
(* worker at work and callers taking and dropping on-connect streams.       *)
TelemetryConfigs ==
    { c \in Configs : /\ c.role = "Full"
                      /\ ~c.offchain_worker_enabled /\ ~c.tracing_targets
                      /\ ~c.prometheus_config /\ c.protocol_id }

InitTelemetryBuild ==
    /\ Init
    /\ config \in TelemetryConfigs
    /\ params = [ offchain_storage       |-> FALSE,
                  on_demand              |-> FALSE,
                  remote_blockchain      |-> FALSE,
                  rpc_extensions_builder |-> NoopRpcExtensionBuilder(ExtNames) ]

SpecTelemetry == InitTelemetryBuild /\ [][NextBuild \/ NextTelemetry]_vars


(* The status sinks of an assembled node with push and update as calls      *)
(* that contend for the guard.                                              *)
InitRunningGuarded == RunningNode /\ InitBridge /\ InitSinks /\ InitGen

SpecGuarded == InitRunningGuarded /\ [][NextGuarded]_vars

----------------------------------------------------------------------------
(* Properties of build() *)

NetworkWorkerSpawned == "network-worker" \in SpawnedNames

(* C1: when initial session-key generation or build_network fails, build    *)
(* has returned the error at once, having spawned no task (blocking or      *)
(* cooperative), generated no handler and started no RPC server.            *)
C1_NoPartialNode ==
    (failed \cap {"session_keys", "build_network"} # {}) =>
        /\ result = "err"
        /\ pc = "done"
        /\ spawned = <<>>
        /\ Running = {}
        /\ handlers = <<>>
        /\ rpc = {}

C1_Witness ==
    /\ result = "err"
    /\ "build_network" \in failed

(* C2 as stated: once the network worker is spawned, build never returns an *)
(* error.                                                                    *)
C2_Original == NetworkWorkerSpawned => result # "err"

(* C2 amended: after the network worker is spawned, build returns an error  *)
(* only when metrics service construction or RPC server start failed; an    *)
(* unreachable telemetry endpoint and a failed tracing subscriber           *)
(* installation leave build returning ServiceComponents with every spawned  *)
(* task still running, the tracing failure logged as an error.              *)
C2_LaterFailures ==
    /\ (NetworkWorkerSpawned /\ result = "err") =>
           failed \cap {"metrics", "rpc"} # {}
    /\ ("tracing" \in failed) =>
           \E i \in 1..Len(logs) : logs[i] = [level |-> "error", at |-> "tracing"]
    /\ (pc = "done" /\ failed \subseteq {"telemetry_endpoint", "tracing"}) =>
           /\ result = "ok"
           /\ task_manager = "alive"
           /\ Running = SpawnedNames
           /\ NetworkWorkerSpawned

C2_Witness ==
    /\ pc = "done"
    /\ result = "ok"
    /\ failed = {"telemetry_endpoint", "tracing"}

(* C10: the handler build generates with DenyUnsafe::No for RpcHandlers is  *)
(* bound to no transport; it is held only by the keep-alive bag and by      *)
(* ServiceComponents, and each transport serves a handler of its own that   *)
(* start_rpc_servers generated with that interface's flag.                  *)
C10_InternalHandlerNotServed ==
    /\ \A s \in rpc :
         /\ s.handler # rpc_handlers
         /\ s.handler \in 1..Len(handlers)
         /\ handlers[s.handler].deny_unsafe = s.deny
    /\ \A s, t \in rpc : s.handler = t.handler => s = t
    /\ rpc_handlers # 0 => handlers[rpc_handlers].deny_unsafe = "No"
    /\ result = "ok" =>
         /\ rpc_handlers # 0
         /\ keep_alive.rpc_handlers = rpc_handlers
         /\ components.rpc_handlers = rpc_handlers
         /\ keep_alive.rpc = rpc

C10_Witness ==
    /\ result = "ok"
    /\ \E s \in rpc : s.deny = "Yes"
    /\ \E s \in rpc : s.deny = "No"

----------------------------------------------------------------------------
(* Properties of the transaction bridge *)

(* C3: the network handle sees one propagate_transaction call per hash the  *)
(* import-notification stream emitted, in the stream's order: the calls     *)
(* made so far followed by the notifications still pending are exactly what *)
(* the stream emitted, so no hash is skipped, and none is propagated more   *)
(* often than it was emitted; each call comes with one txpool.import record. *)
C3_OnePropagatePerNotification ==
    /\ emitted = propagated \o stream
    /\ txpool_import = Len(propagated)

C3_Witness ==
    /\ emitted = <<"h1", "h2", "h1">>
    /\ propagated = emitted

----------------------------------------------------------------------------
(* Properties of StatusSinks *)

Registered(c) == \E k \in 1..Len(entries) : entries[k].chan = c

UpdateStep == updates' = updates + 1

(* C4: an update sends its value to each registered subscriber whose        *)
(* interval has elapsed on the monotonic clock since its last delivery and  *)
(* whose channel takes it, and restarts that subscriber's interval at the   *)
(* current time; a subscriber whose interval has not elapsed gets nothing   *)
(* and keeps its timestamp; a channel not in the registry gets nothing.     *)
C4_UpdateDeliversToElapsed ==
    [][ UpdateStep =>
          /\ \A k \in 1..Len(entries) :
               LET e == entries[k]
                   due == now - e.last >= e.interval
               IN  /\ (due /\ subs[e.chan].receiver = "open") =>
                         /\ delivered'[e.chan] =
                              Append(delivered[e.chan], <<updates', now>>)
                         /\ \E j \in 1..Len(entries') :
                              entries'[j] = [e EXCEPT !.last = now]
                   /\ ~due =>
                         /\ delivered'[e.chan] = delivered[e.chan]
                         /\ \E j \in 1..Len(entries') : entries'[j] = e
          /\ \A c \in Channels : ~Registered(c) => delivered'[c] = delivered[c]
      ]_vars

C4_Witness ==
    \E c, d \in Channels :
        /\ updates > 0
        /\ Len(delivered[c]) = 1
        /\ \E k \in 1..Len(entries) :
             entries[k].chan = c /\ entries[k].last = delivered[c][1][2]
        /\ subs[d].receiver = "open"
        /\ subs[d].at < delivered[c][1][2]
        /\ delivered[d] = <<>>
        /\ \E k \in 1..Len(entries) :
             entries[k].chan = d /\ entries[k].last = subs[d].at

(* The deliveries the worked example expects within one second. *)
ScenarioExpected(c) == 1000 \div (subs[c].interval * ScenarioUnitMs)

(* C5: nothing is queued for a subscriber. Two deliveries to one subscriber *)
(* are at least its interval apart, so it has had at most one value per     *)
(* interval since it registered, however often update ran; the only value   *)
(* a channel ever gains is the one of the update call being made, so a      *)
(* value passed while the interval had not elapsed is never delivered. With *)
(* update called every 50ms, twenty times, the 100ms subscriber ends with   *)
(* 9 or 10 values and the 250ms subscriber with 3 or 4.                     *)
C5_NothingQueued ==
    /\ [] ( /\ \A c \in Channels :
                 /\ \A k \in 2..Len(delivered[c]) :
                      delivered[c][k][2] - delivered[c][k-1][2] >= subs[c].interval
                 /\ subs[c].receiver # "none" =>
                      Len(delivered[c]) * subs[c].interval <= now - subs[c].at
            /\ (producer.mode = "periodic" /\ updates = ScenarioCalls) =>
                 /\ Len(delivered[1]) \in (ScenarioExpected(1) - 1)..ScenarioExpected(1)
                 /\ Len(delivered[2]) \in (ScenarioExpected(2) - 1)..ScenarioExpected(2) )
    /\ [][ \A c \in Channels :
             delivered'[c] # delivered[c] =>
                 /\ UpdateStep
                 /\ delivered'[c] = Append(delivered[c], <<updates', now>>)
       ]_vars

C5_Witness ==
    /\ producer.mode = "periodic"
    /\ updates = ScenarioCalls
    /\ Len(delivered[1]) = 10
    /\ Len(delivered[2]) = 4

(* C6 as stated: the update that follows the drop of a subscriber's         *)
(* receiver removes that subscriber from the registry.                      *)
C6_Original ==
    [][ UpdateStep =>
          \A k \in 1..Len(entries) :
              subs[entries[k].chan].receiver = "dropped" =>
                  \A j \in 1..Len(entries') : entries'[j].chan # entries[k].chan
      ]_vars

(* C6 in this model: a subscriber whose receiver was dropped is removed by  *)
(* the first update made once its interval has elapsed, the update whose    *)
(* send to it fails; an update made before that leaves it registered. The update *)
(* completes either way, and every subscriber with a live receiver stays    *)
(* registered with its interval and gets exactly the deliveries it is due.  *)
C6_PrunedWhenSendFails ==
    [][ UpdateStep =>
          \A k \in 1..Len(entries) :
              LET e == entries[k]
                  due == now - e.last >= e.interval
                  closed == subs[e.chan].receiver = "dropped"
              IN  /\ (closed /\ due) =>
                        \A j \in 1..Len(entries') : entries'[j].chan # e.chan
                  /\ (closed /\ ~due) =>
                        \E j \in 1..Len(entries') : entries'[j] = e
                  /\ closed => delivered'[e.chan] = delivered[e.chan]
                  /\ ~closed =>
                        /\ \E j \in 1..Len(entries') :
                             /\ entries'[j].chan = e.chan
                             /\ entries'[j].interval = e.interval
                             /\ entries'[j].last = IF due THEN now ELSE e.last
                        /\ delivered'[e.chan] =
                             IF due THEN Append(delivered[e.chan], <<updates', now>>)
                             ELSE delivered[e.chan]
                        /\ subs'[e.chan] = subs[e.chan]
      ]_vars

C6_Witness ==
    \E c, d \in Channels :
        /\ subs[c].receiver = "dropped"
        /\ ~Registered(c)
        /\ subs[d].receiver = "open"
        /\ Registered(d)
        /\ delivered[d] # <<>>
        /\ delivered[c] # <<>>

(* C7: what one subscriber receives is a subsequence of the values passed   *)
(* to update, in the order of the calls: the values on a channel are call   *)
(* numbers made so far, strictly increasing.                                *)
C7_ProducerOrder ==
    \A c \in Channels :
        /\ \A k \in 1..Len(delivered[c]) : delivered[c][k][1] \in 1..updates
        /\ \A k \in 2..Len(delivered[c]) :
             delivered[c][k-1][1] < delivered[c][k][1]

C7_Witness ==
    \E c \in Channels :
        /\ Len(delivered[c]) >= 2
        /\ delivered[c][1][1] > 1
        /\ delivered[c][2][1] > delivered[c][1][1] + 1

(* C8: push only registers. A channel never pushed holds nothing, and the   *)
(* first value on a channel, like every later one, was sent by an update    *)
(* made at least one interval after the push.                               *)
C8_PushDoesNotEmit ==
    \A c \in Channels :
        /\ subs[c].receiver = "none" => delivered[c] = <<>>
        /\ updates = 0 => delivered[c] = <<>>
        /\ \A k \in 1..Len(delivered[c]) :
             delivered[c][k][2] >= subs[c].at + subs[c].interval

C8_Witness ==
    \E c \in Channels :
        /\ subs[c].at > 0
        /\ delivered[c] # <<>>
        /\ delivered[c][1][1] > 1
        /\ delivered[c][1][2] = subs[c].at + subs[c].interval

----------------------------------------------------------------------------
(* Properties of gen_handler *)

ExtSafe == gen_inputs.builder["Yes"]
ExtUnsafe == gen_inputs.builder["No"]

(* C9 as stated: the safe table's method names are a strict subset of the   *)
(* unsafe table's, and a request for a method only the unsafe table has is  *)
(* not found in the safe one.                                               *)
C9_Original ==
    Generated =>
        /\ tables.safe.methods \subseteq tables.unsafe.methods
        /\ tables.safe.methods # tables.unsafe.methods

(* C9 amended: the two tables hold the same state, child-state, chain,      *)
(* offchain, author and system method names; they differ only in what the   *)
(* extension builder returns for the two flags, so with a builder that      *)
(* ignores the flag (NoopRpcExtensionBuilder) they hold the same names; a   *)
(* request for a method the safe table lacks is answered method-not-found.  *)
C9_TablesDifferOnlyInExtension ==
    Generated =>
        /\ tables.safe.deny_unsafe = "Yes"
        /\ tables.unsafe.deny_unsafe = "No"
        /\ tables.safe.methods \cap BuiltinApi = tables.unsafe.methods \cap BuiltinApi
        /\ AuthorApi \cup SystemApi \cup StateApi \cup ChildStateApi \cup ChainApi
             \subseteq tables.safe.methods
        /\ tables.unsafe.methods \ tables.safe.methods \subseteq ExtUnsafe \ ExtSafe
        /\ tables.safe.methods \ tables.unsafe.methods \subseteq ExtSafe \ ExtUnsafe
        /\ gen_inputs.builder \in NoopBuilders =>
             tables.safe.methods = tables.unsafe.methods
        /\ (call.via = "safe" /\ call.method \notin tables.safe.methods) =>
             call.outcome = "method_not_found"

C9_Witness ==
    /\ Generated
    /\ gen_inputs.builder = NoopRpcExtensionBuilder(ExtNames)
    /\ tables.safe.methods = tables.unsafe.methods
    /\ "author_insertKey" \in tables.safe.methods
    /\ call = [via |-> "safe", method |-> "author_insertKey", outcome |-> "dispatched"]

----------------------------------------------------------------------------
(* Properties of shutdown and of the tasks' life *)

KeepAliveBag == {"telemetry", "base_path", "rpc", "rpc_handlers"}

C12_TasksStopOnlyByCompletionOrDrop ==
    /\ [](\A name \in StreamTasks \cap SpawnedNames :
             (task_manager = "alive" /\ name \notin stream_closed) => name \in Running)
    /\ [](ended \subseteq SpawnedNames)
    /\ [][ \A name \in Running :
             name \notin Running' =>
                \/ task_manager' = "dropped"
                \/ /\ name \in ended' \ ended
                   /\ pc' = pc
                   /\ name \in stream_closed \/ name = "prometheus-endpoint" ]_vars

C12_Witness ==
    /\ task_manager = "alive"
    /\ "on-transaction-imported" \in ended
    /\ "telemetry-periodic-send" \in stream_closed \ ended
    /\ "telemetry-periodic-network-state" \in Running
    /\ pc = "done"

BuildErrors == {"session_keys", "build_network", "metrics", "rpc"}

(* C13: a task that fails or ends after it was spawned changes nothing for  *)
(* the caller of build (build goes on from where it was and returns an      *)
(* error only for a failed step of its own), is not spawned again, stays    *)
(* stopped, and leaves every other running task running.                    *)
C13_TaskFailureNotReported ==
    /\ [](result = "err" => failed \cap BuildErrors # {})
    /\ []((pc = "done" /\ failed \cap BuildErrors = {}) => result = "ok")
    /\ [](\A i, j \in 1..Len(spawned) : spawned[i].name = spawned[j].name => i = j)
    /\ [][ /\ \A name \in ended : name \in ended' /\ name \notin Running'
           /\ ended' # ended =>
                /\ UNCHANGED <<pc, result, failed, spawned, task_manager>>
                /\ \A other \in Running \ (ended' \ ended) : other \in Running' ]_vars

C13_Witness ==
    /\ result = "ok"
    /\ task_manager = "alive"
    /\ "prometheus-endpoint" \in ended
    /\ failed = {}
    /\ Running = SpawnedNames \ {"prometheus-endpoint"}
    /\ "telemetry-worker" \in Running

----------------------------------------------------------------------------
(* Further properties of build() *)

OffchainWarnings ==
    Cardinality({ i \in 1..Len(logs) : logs[i] = [level |-> "warn", at |-> "offchain"] })

(* C14: once build has decided on the offchain workers, they are present    *)
(* exactly when the offchain-worker config is enabled and the backend has   *)
(* offchain storage; enabled without storage gives none and one warning of  *)
(* its own, every other case no such warning; the decision never fails      *)
(* build, which returns what it decided in ServiceComponents.               *)
C14_OffchainWorkers ==
    LET enabled == config.offchain_worker_enabled
        storage == params.offchain_storage
    IN  /\ offchain_workers = "unset" => OffchainWarnings = 0
        /\ offchain_workers # "unset" =>
             /\ offchain_workers = (IF enabled /\ storage THEN "some" ELSE "none")
             /\ OffchainWarnings = (IF enabled /\ ~storage THEN 1 ELSE 0)
        /\ "offchain-notifications" \in SpawnedNames => offchain_workers = "some"
        /\ result = "err" => failed \cap BuildErrors # {}
        /\ (pc = "done" /\ failed \cap BuildErrors = {}) =>
             /\ result = "ok"
             /\ components.offchain_workers = offchain_workers
             /\ offchain_workers # "unset"

C14_Witness ==
    /\ result = "ok"
    /\ config.offchain_worker_enabled
    /\ ~params.offchain_storage
    /\ offchain_workers = "none"
    /\ OffchainWarnings = 1

AllHolders ==
    { "network_future", "telemetry-periodic-send",
      "telemetry-periodic-network-state", "informant", "ServiceComponents" }

(* C18: build creates one StatusSinks, in build_network, and none after:    *)
(* the instance inside the network future is the one the two telemetry      *)
(* tasks and the informant are given and the one ServiceComponents returns; *)
(* every task is spawned through the task manager taken from ServiceParams, *)
(* which is the one ServiceComponents returns.                              *)
C18_OneRegistryOneSinks ==
    /\ sinks_created = (IF network = "built" THEN 1 ELSE 0)
    /\ network_status_sinks = sinks_created
    /\ \A h \in sinks_held : h.sinks = 1 /\ h.holder \in AllHolders
    /\ \A name \in SpawnedNames \cap AllHolders :
          [holder |-> name, sinks |-> 1] \in sinks_held
    /\ network = "built" => [holder |-> "network_future", sinks |-> 1] \in sinks_held
    /\ \A i \in 1..Len(spawned) : spawned[i].registry = SpawnHandle
    /\ result = "ok" =>
          /\ sinks_held = { [holder |-> h, sinks |-> 1] : h \in AllHolders }
          /\ components.task_manager
          /\ task_manager = "alive"

C18_Witness ==
    /\ result = "ok"
    /\ Cardinality(sinks_held) = 5
    /\ Len(spawned) = 9

(* C19: the network worker is the first task build spawns, it is spawned    *)
(* once, on the blocking lane, and it is the only task on that lane: every  *)
(* task spawned after it is on the cooperative lane.                        *)
C19_NetworkWorkerOnBlockingLane ==
    /\ \A i \in 1..Len(spawned) :
          /\ (spawned[i].name = "network-worker") <=> (i = 1)
          /\ (spawned[i].lane = "blocking") <=> (i = 1)
          /\ spawned[i].lane \in {"blocking", "cooperative"}
    /\ (pc \notin {"start", "build_network", "spawn_network"}
          /\ failed \cap {"session_keys", "build_network"} = {}) => spawned # <<>>

C19_Witness ==
    /\ result = "ok"
    /\ Len(spawned) = 9
    /\ spawned[1] = [name |-> "network-worker", lane |-> "blocking",
                     registry |-> SpawnHandle]
    /\ \A i \in 2..9 : spawned[i].lane = "cooperative"

----------------------------------------------------------------------------
(* Further properties of gen_handler *)

(* C20: the chain, state and child-state constructors are the light ones    *)
(* exactly when both the remote blockchain and the on-demand fetcher are    *)
(* present, the full ones otherwise; the author and system objects come     *)
(* from the same constructors either way, the offchain object exists        *)
(* exactly when there is offchain storage, and the method table is the one  *)
(* a full node gets from the same storage and extension builder.            *)
C20_LightIffBothRemote ==
    Generated =>
        \A via \in {"safe", "unsafe"} :
            LET h == tables[via]
                kind == IF gen_inputs.remote_blockchain /\ gen_inputs.on_demand
                        THEN "light" ELSE "full"
                full == GenHandler(h.deny_unsafe, FALSE, FALSE,
                                   gen_inputs.offchain_storage, gen_inputs.builder)
            IN  /\ h.chain = kind
                /\ h.state = kind
                /\ h.child_state = kind
                /\ h.author = "Author::new"
                /\ h.system = "System::new"
                /\ h.offchain = gen_inputs.offchain_storage
                /\ h.methods = full.methods
                /\ AuthorApi \cup SystemApi \subseteq h.methods
                /\ (OffchainApi \subseteq h.methods) <=> gen_inputs.offchain_storage

C20_Witness ==
    /\ Generated
    /\ gen_inputs.on_demand
    /\ ~gen_inputs.remote_blockchain
    /\ tables.safe.chain = "full"
    /\ tables.unsafe.state = "full"

----------------------------------------------------------------------------
(* Properties of assembly *)

(* C15: when opening the keystore or opening the storage (the database      *)
(* backend of a full node, the light storage of a light node) fails in      *)
(* new_full_parts or new_light_parts, the error is returned to the caller:  *)
(* assembly has stopped there, no ServiceParams exists, build has not run,  *)
(* and no task was spawned: no component had been given a spawn handle and  *)
(* the task manager, if it was created, is dropped.                         *)
C15_PartsErrorsBeforeAnySpawn ==
    parts_failed \in {"keystore", "storage"} =>
        /\ fn = "failed"
        /\ shape \in {"full", "light"}
        /\ spawned = <<>>
        /\ handles = {}
        /\ Running = {}
        /\ task_manager \in {"none", "dropped"}
        /\ service_params = "none"
        /\ pc = "unbuilt"
        /\ result = "none"

C15_Witness ==
    /\ parts_failed = "storage"
    /\ shape = "light"
    /\ task_manager = "dropped"
    /\ constructed = <<"task_manager", "keystore", "executor">>

WiringErrors == {"block_import", "import_queue"}

(* How far assembly has come. *)
Phase ==
    IF result = "ok" THEN "Running"
    ELSE IF service_params # "none" THEN "ComponentsWired"
    ELSE IF fn \in {"wiring", "params"} \/ parts_failed \in WiringErrors THEN "PartsBuilt"
    ELSE "Unconfigured"

PhaseRank(ph) ==
    CASE ph = "Unconfigured" -> 0
      [] ph = "PartsBuilt" -> 1
      [] ph = "ComponentsWired" -> 2
      [] ph = "Running" -> 3

WiredParts ==
    { "keystore", "task_manager", "executor", "client", "transaction_pool",
      "select_chain", "block_import", "import_queue", "finality_proof_provider" }

(* C16: assembly goes Unconfigured, PartsBuilt, ComponentsWired, Running,   *)
(* one phase at a time and never back; build has run only on a             *)
(* ServiceParams that wiring returned after constructing every part, and    *)
(* has taken it, so it runs at most once per ServiceParams; and once a step *)
(* of parts construction, of wiring or of build has returned an error the   *)
(* node is not Running.                                                     *)
C16_AssemblyPhases ==
    /\ [](builds <= 1)
    /\ [](pc # "unbuilt" =>
            /\ builds = 1
            /\ service_params = "moved"
            /\ parts_failed = "none"
            /\ WiredParts \subseteq {constructed[i] : i \in 1..Len(constructed)})
    /\ []((parts_failed # "none" \/ result = "err") => Phase # "Running")
    /\ []((Phase = "Running") => (pc = "done" /\ service_params = "moved"))
    /\ [][ PhaseRank(Phase') \in {PhaseRank(Phase), PhaseRank(Phase) + 1} ]_vars

C16_Witness ==
    /\ Phase = "Running"
    /\ shape = "full"
    /\ builds = 1

Order ==
    << "keystore", "task_manager", "executor", "client", "transaction_pool",
       "select_chain", "block_import", "import_queue", "finality_proof_provider",
       "network", "rpc", "telemetry", "informant" >>

(* What Builder::build_light and new_light_parts do instead: the task       *)
(* manager before the keystore, the block import before the chain selector. *)
LightOrder ==
    << "task_manager", "keystore", "executor", "client", "transaction_pool",
       "block_import", "select_chain", "import_queue", "finality_proof_provider",
       "network", "rpc", "telemetry", "informant" >>

Rank(order, part) == CHOOSE i \in 1..Len(order) : order[i] = part

Follows(order) ==
    \A i, j \in 1..Len(constructed) :
        i < j => Rank(order, constructed[i]) <= Rank(order, constructed[j])

(* C17 as stated: in either shape no part is constructed before a part     *)
(* that precedes it in keystore, task registry, executor, client/backend,   *)
(* transaction pool, chain selector, block import, import queue, finality   *)
(* proof provider, network, RPC, telemetry, informant.                      *)
C17_Original == Follows(Order)

(* C17 amended: a full node is constructed in that order; a light node is   *)
(* constructed in the same order except that its task manager comes before  *)
(* its keystore and its block import before its chain selector.             *)
C17_ConstructionOrder ==
    /\ shape = "full" => Follows(Order)
    /\ shape = "light" => Follows(LightOrder)
    /\ shape \in {"none", "full", "light"}
    /\ result = "ok" =>
          {constructed[i] : i \in 1..Len(constructed)} \cup {"telemetry"}
             = {Order[i] : i \in 1..Len(Order)}

C17_Witness ==
    /\ result = "ok"
    /\ shape = "light"
    /\ Len(constructed) > Len(Order)
    /\ constructed[Len(constructed)] = "informant"
    /\ \E i \in 1..Len(constructed) : constructed[i] = "telemetry"

----------------------------------------------------------------------------
(* Properties of build_network *)

(* C22: the transaction-pool adapter handed to the network stack imports    *)
(* externally announced transactions exactly when config.role is not Light. *)
C22_AdapterImportsUnlessLight ==
    /\ Len(network_params) <= 1
    /\ network = "built" => Len(network_params) = 1
    /\ \A i \in 1..Len(network_params) :
         /\ network_params[i].role = config.role
         /\ network_params[i].transaction_pool.imports_external_transactions
              <=> config.role # "Light"

C22_Witness ==
    /\ network = "built"
    /\ result = "ok"
    /\ config.role = "Light"
    /\ ~network_params[1].transaction_pool.imports_external_transactions

ProtocolIdWarnings ==
    Cardinality({ i \in 1..Len(logs) : logs[i] = [level |-> "warn", at |-> "protocol_id"] })

(* C23: the protocol id given to the network stack is the chain spec's when *)
(* it has one and the default otherwise; the default comes with exactly one *)
(* warning of its own, the chain spec's id with none, and the only failure  *)
(* recorded for build_network is that of NetworkWorker::new.                *)
C23_ProtocolIdDefaulted ==
    /\ network_params = <<>> => ProtocolIdWarnings = 0
    /\ \A i \in 1..Len(network_params) :
         /\ network_params[i].protocol_id =
              (IF config.protocol_id THEN "chain_spec.protocol_id"
               ELSE "DEFAULT_PROTOCOL_ID")
         /\ ProtocolIdWarnings = (IF config.protocol_id THEN 0 ELSE 1)
    /\ (pc \notin {"start", "build_network"} /\ "session_keys" \notin failed
        /\ "build_network" \notin failed) => network = "built"

C23_Witness ==
    /\ ~config.protocol_id
    /\ result = "ok"
    /\ network = "built"
    /\ network_params[1].protocol_id = "DEFAULT_PROTOCOL_ID"
    /\ ProtocolIdWarnings = 1

----------------------------------------------------------------------------
(* Properties of the Configuration inside build *)

(* C24: a step of build changes the Configuration only when it builds the   *)
(* telemetry with endpoints configured, and then only by leaving the        *)
(* external transport empty; the telemetry is decided once, so this happens *)
(* at most once, and never without telemetry endpoints.                     *)
C24_ConfigFrame ==
    [][ /\ \/ config' = config
           \/ /\ pc = "telemetry"
              /\ config.telemetry_endpoints
              /\ telemetry = "unset" /\ telemetry' = "some"
              /\ config' = [config EXCEPT !.telemetry_external_transport = FALSE]
        /\ telemetry # "unset" => telemetry' = telemetry /\ config' = config
        /\ ~config.telemetry_endpoints => config' = config ]_vars

C24_Witness ==
    /\ result = "ok"
    /\ config.telemetry_endpoints
    /\ telemetry = "some"
    /\ "telemetry-worker" \in SpawnedNames
    /\ ~config.telemetry_external_transport

----------------------------------------------------------------------------
(* Properties of the tasks build spawns *)

AlwaysSpawned ==
    { "network-worker", "txpool-notifications", "on-transaction-imported",
      "telemetry-periodic-send", "telemetry-periodic-network-state", "informant" }

SpawnCount(name) ==
    Cardinality({ i \in 1..Len(spawned) : spawned[i].name = name })

(* The number of times a successful build spawns the task `name`. *)
ExpectedSpawns(name) ==
    IF name \in AlwaysSpawned THEN 1
    ELSE IF name = "offchain-notifications"
         THEN (IF offchain_workers = "some" THEN 1 ELSE 0)
    ELSE IF name = "prometheus-endpoint"
         THEN (IF config.prometheus_config THEN 1 ELSE 0)
    ELSE IF name = "telemetry-worker"
         THEN (IF config.telemetry_endpoints THEN 1 ELSE 0)
    ELSE 0

(* C25: when build has returned Ok, the tasks it spawned are the six        *)
(* unconditional ones, offchain-notifications iff the offchain workers      *)
(* exist, prometheus-endpoint iff a Prometheus config is present and        *)
(* telemetry-worker iff telemetry endpoints are configured, each once and   *)
(* no other.                                                                *)
C25_SpawnedTaskSet ==
    result = "ok" =>
        \A name \in SpawnedNames \cup AlwaysSpawned
                    \cup {"offchain-notifications", "prometheus-endpoint",
                          "telemetry-worker"} :
            SpawnCount(name) = ExpectedSpawns(name)

C25_Witness ==
    /\ result = "ok"
    /\ config.offchain_worker_enabled
    /\ offchain_workers = "none"
    /\ config.prometheus_config
    /\ ~config.telemetry_endpoints
    /\ Len(spawned) = 7

----------------------------------------------------------------------------
(* Properties of the offchain RPC *)

(* C30: in both generated handlers the offchain methods are all present     *)
(* when the backend reported offchain storage and all absent when it did    *)
(* not, and the rest of the table, the state, child-state, chain, author    *)
(* and system methods and what the extension builder returned for the       *)
(* handler's flag, is the same either way.                                  *)
C30_OffchainRpcIffStorage ==
    Generated =>
        \A via \in {"safe", "unsafe"} :
            LET h == tables[via]
                rest == StateApi \cup ChildStateApi \cup ChainApi \cup AuthorApi
                           \cup SystemApi
                           \cup BuildExtension(gen_inputs.builder, h.deny_unsafe)
            IN  /\ gen_inputs.offchain_storage  => OffchainApi \subseteq h.methods
                /\ ~gen_inputs.offchain_storage => OffchainApi \cap h.methods = {}
                /\ h.methods \ OffchainApi = rest
                /\ \A m \in OffchainApi :
                     Dispatch(h, m).outcome =
                        (IF gen_inputs.offchain_storage THEN "dispatched"
                         ELSE "method_not_found")

C30_Witness ==
    /\ Generated
    /\ ~gen_inputs.offchain_storage
    /\ call.method \in OffchainApi
    /\ call.via = "safe"
    /\ call.outcome = "method_not_found"
    /\ "state_getStorage" \in tables.safe.methods

----------------------------------------------------------------------------
(* Properties of the Builder trait and of what it wires *)

(* C21: an implementation of Builder is accepted exactly when its           *)
(* import-queue builder is over its block-import builder and that           *)
(* block-import builder is over its chain selector; a rejected one never    *)
(* runs: no assembly function is entered, nothing is constructed and no     *)
(* error value exists.                                                      *)
C21_CompositionChecked ==
    LET matches == /\ recipe.ImportQueueBuilder.BlockImportBuilder
                         = recipe.BlockImportBuilder
                   /\ recipe.BlockImportBuilder.SelectChainBuilder
                         = recipe.SelectChainBuilder
    IN  /\ compiled = "accepted" => matches
        /\ compiled = "rejected" => ~matches
        /\ compiled # "accepted" =>
             /\ fn = "idle" /\ shape = "none" /\ pc = "unbuilt"
             /\ constructed = <<>> /\ task_manager = "none"
             /\ parts_failed = "none" /\ failed = {} /\ result = "none"

C21_Witness ==
    /\ compiled = "rejected"
    /\ recipe.ImportQueueBuilder.BlockImportBuilder = recipe.BlockImportBuilder
    /\ recipe.BlockImportBuilder.SelectChainBuilder # recipe.SelectChainBuilder

(* C27: the ServiceParams of build_light carry the remote-fetch handle, the *)
(* remote blockchain, the finality-proof request builder and the            *)
(* finality-proof provider; those of build_full carry the provider and none *)
(* of the other three; neither carries a block-announce-validator builder.  *)
(* Every handler build generates from them is light for build_light and     *)
(* full for build_full.                                                     *)
C27_WiredParamsShape ==
    /\ service_params = "none" =>
         /\ params = NoParams /\ network_inputs = NoNetworkInputs
         /\ handlers = <<>>
    /\ service_params # "none" =>
         /\ shape \in {"light", "full"}
         /\ params.on_demand = (shape = "light")
         /\ params.remote_blockchain = (shape = "light")
         /\ network_inputs.finality_proof_request_builder = (shape = "light")
         /\ network_inputs.finality_proof_provider
         /\ ~network_inputs.block_announce_validator_builder
         /\ \A i \in 1..Len(handlers) :
              /\ handlers[i].chain = shape
              /\ handlers[i].state = shape
              /\ handlers[i].child_state = shape
         /\ \A i \in 1..Len(network_params) :
              /\ network_params[i].on_demand = (shape = "light")
              /\ network_params[i].finality_proof_request_builder = (shape = "light")
              /\ network_params[i].finality_proof_provider
              /\ network_params[i].block_announce_validator
                    = "DefaultBlockAnnounceValidator"

C27_Witness ==
    /\ shape = "light"
    /\ result = "ok"
    /\ rpc_handlers > 0
    /\ handlers[rpc_handlers].chain = "light"
    /\ network_inputs.finality_proof_request_builder
    /\ Len(network_params) = 1

(* C28: an import queue built by the Aura or the Babe builder has the       *)
(* block import it was paired with as its justification import and no       *)
(* finality-proof import when built by build_full, and as its               *)
(* finality-proof import with no justification import when built by         *)
(* build_light: exactly one of the two is present.                          *)
C28_ImportQueueImports ==
    /\ ("import_queue" \in {constructed[i] : i \in 1..Len(constructed)})
          <=> import_queue.mode # "none"
    /\ import_queue.mode # "none" =>
         /\ import_queue.mode = shape
         /\ import_queue.built_by = recipe.ImportQueueBuilder.name
         /\ import_queue.block_import # "none"
         /\ import_queue.mode = "full" =>
              /\ import_queue.block_import = "FullBlockImport"
              /\ import_queue.justification_import = import_queue.block_import
              /\ import_queue.finality_proof_import = "none"
         /\ import_queue.mode = "light" =>
              /\ import_queue.block_import = "LightBlockImport"
              /\ import_queue.finality_proof_import = import_queue.block_import
              /\ import_queue.justification_import = "none"
         /\ (import_queue.justification_import = "none")
               # (import_queue.finality_proof_import = "none")

C28_Witness ==
    /\ import_queue.built_by = "BabeImportQueueBuilder"
    /\ import_queue.mode = "light"
    /\ import_queue.finality_proof_import = "LightBlockImport"
    /\ service_params = "ready"

----------------------------------------------------------------------------
(* Properties of the telemetry on-connect sinks *)

(* C29: a Connected event sends one message to every sink in the list whose *)
(* receiver is alive and to no other, and leaves in the list exactly the    *)
(* sinks it could send to, in their order; no other step delivers. So a     *)
(* sink with a live receiver has received one message per event since it    *)
(* was registered, none for the events before.                              *)
C29_OnConnectSinks ==
    /\ [](\A i \in OnConnectIds :
            /\ on_connect[i].receiver = "none" =>
                 on_connect[i].got = 0 /\ i \notin OnConnectList
            /\ on_connect[i].receiver = "open" =>
                 /\ on_connect[i].got = connected - on_connect[i].since
                 /\ Cardinality({k \in 1..Len(telemetry_connection_sinks) :
                                   telemetry_connection_sinks[k] = i}) = 1
            /\ on_connect[i].receiver = "dropped" =>
                 on_connect[i].got <= connected - on_connect[i].since)
    /\ [][ IF connected' = connected + 1
           THEN /\ telemetry_connection_sinks' =
                     SelectSeq(telemetry_connection_sinks,
                               LAMBDA i : on_connect[i].receiver = "open")
                /\ \A i \in OnConnectIds :
                     /\ on_connect'[i].receiver = on_connect[i].receiver
                     /\ on_connect'[i].got =
                          on_connect[i].got
                            + (IF i \in OnConnectList /\ on_connect[i].receiver = "open"
                               THEN 1 ELSE 0)
           ELSE \A i \in OnConnectIds :
                  on_connect[i].receiver # "none" =>
                      on_connect'[i].got = on_connect[i].got ]_vars

C29_Witness ==
    /\ connected = 2
    /\ on_connect[1].receiver = "dropped"
    /\ on_connect[1].got = 1
    /\ on_connect[2].receiver = "open"
    /\ on_connect[2].since = 1
    /\ on_connect[2].got = 1
    /\ telemetry_connection_sinks = <<2>>

----------------------------------------------------------------------------
(* Properties of push and update running concurrently *)

PushPending(c) == \E k \in 1..Len(pushing) : pushing[k].chan = c

RegisteredTimes(c) == Cardinality({k \in 1..Len(entries) : entries[k].chan = c})

SpawnIndex(name) == CHOOSE i \in 1..Len(spawned) : spawned[i].name = name

(* C26: with push and update contending for the guard, in every             *)
(* interleaving a subscriber whose push has returned is in the registry     *)
(* exactly once while its receiver lives, a subscriber whose push is still  *)
(* waiting is not in it yet, and no subscriber is in it twice; an update    *)
(* sends its value, once, to every registered subscriber whose interval has *)
(* elapsed and to no other, so no value reaches a subscriber twice. The     *)
(* telemetry tasks that push are spawned after the network worker that      *)
(* updates.                                                                 *)
C26_ConcurrentPushUpdate ==
    /\ [](/\ \A c \in Channels :
               /\ RegisteredTimes(c) <= 1
               /\ subs[c].receiver = "none" => RegisteredTimes(c) = 0
               /\ PushPending(c) => RegisteredTimes(c) = 0
               /\ (subs[c].receiver = "open" /\ ~PushPending(c)) =>
                      RegisteredTimes(c) = 1
               /\ \A k \in 1..Len(delivered[c]) :
                      k > 1 => delivered[c][k][1] > delivered[c][k - 1][1]
          /\ guard = "push" => pushing # <<>>
          /\ guard = "update" => updating # <<>>
          /\ SpawnIndex("network-worker") < SpawnIndex("telemetry-periodic-send")
          /\ SpawnIndex("network-worker")
                < SpawnIndex("telemetry-periodic-network-state"))
    /\ [][ (guard = "update" /\ guard' = "free") =>
             \A c \in Channels :
                IF \E k \in 1..Len(entries) :
                       /\ entries[k].chan = c
                       /\ now - entries[k].last >= entries[k].interval
                       /\ subs[c].receiver = "open"
                THEN delivered'[c] = Append(delivered[c], <<updating[1], now>>)
                ELSE delivered'[c] = delivered[c] ]_vars

C26_Witness ==
    /\ guard = "update"
    /\ PushPending(2)
    /\ RegisteredTimes(1) = 1
    /\ Len(delivered[1]) = 1
    /\ updating = <<2>>

====
